---- MODULE Spec2Model ----
(***************************************************************************)
(* A model of the core of ipckit: the framed message channel over a named  *)
(* pipe (channel.rs, pipe.rs), the shutdown state (graceful.rs), the event *)
(* bus (event_stream.rs), the task registry (task_manager.rs) and the      *)
(* per-connection loop of the socket server (socket_server.rs).            *)
(*                                                                         *)
(* Each subsystem has its own specification over the shared variables; a   *)
(* specification leaves the variables of the other subsystems unchanged.   *)
(***************************************************************************)
EXTENDS Integers, Sequences, FiniteSets, TLC

VARIABLES
    \* ---- framed channel over a named pipe (channel.rs, pipe.rs) ----
    fifo,       \* the bytes held by the kernel FIFO both ends opened O_RDWR
    ch,         \* per end: position in send_bytes / recv_bytes and its locals
    sent,       \* per end: payloads accepted by its send_bytes calls, in call order
    rcvd,       \* per end: results returned by its recv_bytes calls, in call order
    calls,      \* number of send_bytes / recv_bytes calls started so far
    \* ---- ShutdownState (graceful.rs) ----
    shutdown,           \* ShutdownState.shutdown
    pending_count,      \* ShutdownState.pending_count
    sh,                 \* per thread: position in its ShutdownState call, guards it holds
    shutdown_returned,  \* some shutdown() call has returned
    shops,              \* number of ShutdownState calls started so far
    \* ---- EventBus (event_stream.rs) ----
    config,         \* EventBusConfig: history_size, subscriber_buffer, slow_consumer
    history,        \* EventBusInner.history
    subscribers,    \* EventBusInner.subscribers: per entry its filter and the
                    \* content of its bounded channel
    readers,        \* the publishers holding the read lock of subscribers
    pub,            \* per publisher thread: position in publish and its locals
    next_event_id,  \* Event::new's NEXT_ID
    delivered,      \* per subscriber: the events its EventSubscriber returned
    publog,         \* ids of all events in the order publish appended them to history
    pubsince,       \* events appended to history since the last clear_history
    \* ---- TaskManager (task_manager.rs) ----
    tasks,          \* TaskManager.tasks: the ids in the registry
    tasks_readers,  \* the threads holding the read lock of TaskManager.tasks
    task_state,     \* the TaskState behind each id ever inserted (an Arc that
                    \* handles keep alive after remove)
    next_id,        \* TaskManager.next_id
    tk,             \* per thread: position in its TaskManager / TaskHandle call
    task_events,    \* the events handed to the event bus, in call order
    taskops,        \* number of TaskManager / TaskHandle calls started so far
    \* ---- SocketServer (socket_server.rs); its ShutdownState is shutdown above ----
    listener,       \* the clients that connected and are not accepted yet
    server_next_id, \* SocketServer.next_id
    run,            \* the thread in SocketServer::run: position and the
                    \* connection it just accepted
    conn,           \* per client: its Connection on the server, the thread that
                    \* serves it, and the bytes in flight in both directions
    \* ---- CancellationToken (task_manager.rs) ----
    token_cells,    \* the Arc<AtomicBool> cells allocated so far
    tokens,         \* the CancellationToken values alive: the cell each points
                    \* to, and the token of CancellationToken::new it derives from
    token_roots,    \* history: the tokens of new with a cancel() in their family
    \* ---- ThreadChannel (thread_channel.rs), GracefulIpcChannel (graceful.rs);
    \*      their ShutdownState is shutdown and pending_count above ----
    thread_inner,   \* the crossbeam channel: the elements queued, oldest first
    thread_capacity,\* None for unbounded(), Some(capacity) for bounded(capacity)
    thc,            \* per thread: the call it is in, its argument and its result
    thread_sent,    \* history: the elements in the order they were enqueued
    thread_rcvd,    \* history: the elements in the order they were dequeued
    thread_ops,     \* calls made so far
    inner_io,       \* calls a GracefulIpcChannel has passed on to its IpcChannel
    \* ---- Connection::request on a client's connection (socket_server.rs) ----
    client,         \* the Connection: the call in progress, the bytes written to
                    \* the peer, the bytes of the peer not read yet, the results
    peer_replies,   \* history: the payloads of the frames the peer wrote
    peer_closed,    \* the peer closed its socket
    \* ---- SocketServer::accept (socket_server.rs) ----
    accept_listener,  \* the clients that connected and wait to be accepted
    connections,      \* SocketServer.connections: the Connections stored by accept
    accept_next_id,   \* SocketServer.next_id
    accept_call,      \* the accept call in progress and the number of calls made
    accept_returned,  \* history: the Connections that accept returned
    accept_connected, \* history: the clients that connected
    \* ---- EventFilter (event_stream.rs) ----
    ef_filter,      \* the EventFilter that the builder calls have put together
    ef_event,       \* the event of the last matches call, None before the first
    ef_result,      \* what that call returned
    \* ---- Connection::send and the peer's Connection::recv (socket_server.rs) ----
    snd_wire,  \* the bytes written to the stream and not read by the peer yet
    snd_lens,  \* history: the length fields of the frames put on the stream
    snd_res,  \* history: the results of the send calls
    snd_peer, \* the peer: the result of its last recv and the bytes it has read
    \* ---- SocketServer::shutdown_timeout (socket_server.rs) ----
    stop, \* the shutdown_timeout call: where it is and what it returned
    \* ---- time, for TaskManager::cleanup (task_manager.rs) ----
    clock, \* the time that SystemTime::now() returns
    \* ---- file_channel.rs: a writer and the reader of one inbox file ----
    inbox_file,  \* the messages in the inbox file, oldest first
    last_inbox_id,  \* FileChannel.last_inbox_id of the reader
    last_inbox_timestamp,  \* FileChannel.last_inbox_timestamp of the reader
    file_recvd,  \* what the reader's recv calls have returned, in call order
    file_sent,  \* the number of messages the writer has sent
    millis, \* what current_timestamp_ms returns
    \* ---- socket_server.rs: run and the number of its connection threads ----
    limit_backlog,  \* connections waiting in the listener, oldest first
    limit_connected,  \* clients that have connected
    limit_closed,  \* clients that have closed their end
    limit_threads,  \* clients whose connection thread is running
    limit_ended,  \* clients whose connection was dropped or whose thread has ended
    limit_run  \* where run is

chanVars == <<fifo, ch, sent, rcvd, calls>>

shutVars == <<shutdown, pending_count, sh, shutdown_returned, shops>>

busVars ==
    <<config, history, subscribers, readers, pub, next_event_id, delivered,
      publog, pubsince>>

taskVars == <<tasks, tasks_readers, task_state, next_id, tk, task_events, taskops>>

serverVars == <<listener, server_next_id, run, conn>>

tokenVars == <<token_cells, tokens, token_roots>>

threadVars ==
    <<thread_inner, thread_capacity, thc, thread_sent, thread_rcvd, thread_ops, inner_io>>

clientVars == <<client, peer_replies, peer_closed>>

acceptVars ==
    <<accept_listener, connections, accept_next_id, accept_call, accept_returned,
      accept_connected>>

filterVars == <<ef_filter, ef_event, ef_result>>

sendVars == <<snd_wire, snd_lens, snd_res, snd_peer>>

stopVars == <<stop>>

clockVars == <<clock>>

fileVars == <<inbox_file, last_inbox_id, last_inbox_timestamp, file_recvd, file_sent, millis>>

limitVars == <<limit_backlog, limit_connected, limit_closed, limit_threads, limit_ended, limit_run>>

vars ==
    <<chanVars, shutVars, busVars, taskVars, serverVars, tokenVars, threadVars, clientVars,
      acceptVars, filterVars,
      sendVars,
      stopVars,
      clockVars,
      fileVars,
      limitVars>>

\* what the steps of one subsystem leave alone
notChan ==
    <<limitVars, fileVars, clockVars, stopVars, sendVars, shutVars, busVars, taskVars, serverVars, tokenVars, threadVars, clientVars, acceptVars,
      filterVars>>

notShut ==
    <<limitVars, fileVars, clockVars, stopVars, sendVars, chanVars, busVars, taskVars, serverVars, tokenVars, threadVars, clientVars, acceptVars,
      filterVars>>

notBus ==
    <<limitVars, fileVars, clockVars, stopVars, sendVars, chanVars, shutVars, taskVars, serverVars, tokenVars, threadVars, clientVars, acceptVars,
      filterVars>>

notTask ==
    <<limitVars, fileVars, clockVars, stopVars, sendVars, chanVars, shutVars, busVars, serverVars, tokenVars, threadVars, clientVars, acceptVars,
      filterVars>>

\* the server reads and sets the shutdown flag and nothing else of ShutdownState
notServer ==
    <<limitVars, fileVars, clockVars, stopVars, sendVars, chanVars, busVars, taskVars, tokenVars, threadVars, clientVars, acceptVars,
      filterVars, pending_count, sh, shutdown_returned, shops>>

notThread ==
    <<limitVars, fileVars, clockVars, stopVars, sendVars, chanVars, busVars, taskVars, serverVars, tokenVars, clientVars, acceptVars,
      filterVars, sh, shutdown_returned, shops>>

notAccept ==
    <<limitVars, fileVars, clockVars, stopVars, sendVars, chanVars, busVars, taskVars, serverVars, tokenVars, threadVars, clientVars,
      filterVars, pending_count, sh, shutdown_returned, shops>>

notClient ==
    <<limitVars, fileVars, clockVars, stopVars, sendVars, chanVars, shutVars, busVars, taskVars, serverVars, tokenVars, threadVars, acceptVars,
      filterVars>>

notToken ==
    <<limitVars, fileVars, clockVars, stopVars, sendVars, chanVars, shutVars, busVars, taskVars, serverVars, threadVars, clientVars, acceptVars,
      filterVars>>

notSend ==
    <<limitVars, fileVars, clockVars, stopVars, chanVars, shutVars, busVars, taskVars, serverVars, tokenVars, threadVars, clientVars, acceptVars, filterVars>>

\* shutdown_timeout sets the shutdown flag and nothing else
notStop ==
    <<limitVars, fileVars, clockVars, chanVars, busVars, taskVars, tokenVars, threadVars, clientVars, acceptVars, filterVars, sendVars,
      pending_count, sh, shutdown_returned, shops>>

notClock ==
    <<limitVars, fileVars, chanVars, shutVars, busVars, taskVars, serverVars, tokenVars, threadVars, clientVars, acceptVars, filterVars, sendVars, stopVars>>

\* cleanup reads the clock and works on the task variables
notCleanup ==
    <<limitVars, fileVars, chanVars, shutVars, busVars, serverVars, tokenVars, threadVars, clientVars, acceptVars, filterVars, sendVars, stopVars>>

notFile ==
    <<limitVars, chanVars, shutVars, busVars, taskVars, serverVars, tokenVars, threadVars, clientVars, acceptVars, filterVars, sendVars, stopVars, clockVars>>

\* run and its threads read the shutdown flag, which shutdown sets
notLimit ==
    <<chanVars, busVars, taskVars, serverVars, tokenVars, threadVars, clientVars, acceptVars, filterVars,
      sendVars, stopVars, clockVars, fileVars, pending_count, sh, shutdown_returned, shops>>

notFilter ==
    <<limitVars, fileVars, clockVars, stopVars, sendVars, chanVars, shutVars, busVars, taskVars, serverVars, tokenVars, threadVars, clientVars,
      acceptVars>>

(***************************************************************************)
(* Byte strings.  A byte string is kept run-length encoded, as a sequence  *)
(* of <<byte, count>> runs with no empty run and no two adjacent runs of   *)
(* the same byte, so that a 16 MiB payload is one run and two equal byte   *)
(* strings are equal values.                                               *)
(***************************************************************************)

RECURSIVE RNorm(_)
RNorm(s) ==
    IF s = <<>> THEN <<>>
    ELSE LET h == Head(s)
             r == RNorm(Tail(s))
         IN  IF h[2] = 0 THEN r
             ELSE IF r # <<>> /\ r[1][1] = h[1]
                  THEN <<(<<h[1], h[2] + r[1][2]>>)>> \o Tail(r)
                  ELSE <<h>> \o r

RECURSIVE RLen(_)
RLen(s) == IF s = <<>> THEN 0 ELSE Head(s)[2] + RLen(Tail(s))

\* the first k bytes of s (all of s when it is shorter)
RECURSIVE RTake(_, _)
RTake(s, k) ==
    IF k = 0 \/ s = <<>> THEN <<>>
    ELSE IF Head(s)[2] >= k THEN <<(<<Head(s)[1], k>>)>>
         ELSE <<Head(s)>> \o RTake(Tail(s), k - Head(s)[2])

\* s without its first k bytes
RECURSIVE RDrop(_, _)
RDrop(s, k) ==
    IF k = 0 \/ s = <<>> THEN s
    ELSE IF Head(s)[2] > k THEN <<(<<Head(s)[1], Head(s)[2] - k>>)>> \o Tail(s)
         ELSE RDrop(Tail(s), k - Head(s)[2])

RCat(s, t) == RNorm(s \o t)

\* the run-length form of an explicit sequence of bytes
RECURSIVE Bytes(_)
Bytes(bs) == IF bs = <<>> THEN <<>> ELSE RCat(<<(<<Head(bs), 1>>)>>, Bytes(Tail(bs)))

\* n copies of byte b
Run(b, n) == RNorm(<<(<<b, n>>)>>)

\* byte number i (1-based) of s
RECURSIVE RByte(_, _)
RByte(s, i) == IF Head(s)[2] >= i THEN Head(s)[1] ELSE RByte(Tail(s), i - Head(s)[2])

(***************************************************************************)
(* channel.rs: framing                                                     *)
(***************************************************************************)

HEADER_SIZE == 4

MAX_MESSAGE_SIZE == 16777216

\* (n as u32).to_le_bytes(), for the lengths a sender can reach here (the size
\* check bounds them by MAX_MESSAGE_SIZE, so the cast never truncates)
to_le_bytes(n) ==
    Bytes(<<n % 256, (n \div 256) % 256, (n \div 65536) % 256, (n \div 16777216) % 256>>)

\* u32::from_le_bytes(header) for a 4-byte string
from_le_bytes(h) ==
    RByte(h, 1) + 256 * RByte(h, 2) + 65536 * RByte(h, 3) + 16777216 * RByte(h, 4)

(***************************************************************************)
(* channel.rs / pipe.rs: IpcChannel<Vec<u8>> over a unix named pipe.       *)
(* NamedPipe::create and NamedPipe::connect both open the same FIFO        *)
(* O_RDWR, so the two ends write into and read from one kernel buffer.     *)
(* The kernel buffer is taken as unbounded; a 4-byte header and a payload  *)
(* are each appended by one write.                                         *)
(***************************************************************************)

Ends == {"server", "client"}

Peer(e) == IF e = "server" THEN "client" ELSE "server"

MaxCalls == 4

Payloads ==
    { <<>>, Bytes(<<7>>), Bytes(<<1, 0, 0, 0, 9>>),
      Run(0, MAX_MESSAGE_SIZE), Run(0, MAX_MESSAGE_SIZE + 1) }

NoResult == [op |-> "none", kind |-> "none", needed |-> 0, got |-> 0, data |-> <<>>]

OkSend == [op |-> "send", kind |-> "Ok", needed |-> 0, got |-> 0, data |-> <<>>]

OkRecv(d) == [op |-> "recv", kind |-> "Ok", needed |-> 0, got |-> 0, data |-> d]

BufferTooSmall(o, n, g) ==
    [op |-> o, kind |-> "BufferTooSmall", needed |-> n, got |-> g, data |-> <<>>]

IdleEnd == [pc |-> "idle", data |-> <<>>, need |-> 0, buf |-> <<>>, res |-> NoResult]

ChanInit ==
    /\ fifo = <<>>
    /\ ch = [e \in Ends |-> IdleEnd]
    /\ sent = [e \in Ends |-> <<>>]
    /\ rcvd = [e \in Ends |-> <<>>]
    /\ calls = 0

\* the size check of send_bytes, off by one
send_too_big_off_by_one(d) == RLen(d) >= MAX_MESSAGE_SIZE

\* the size check of send_bytes
send_too_big(d) == RLen(d) > MAX_MESSAGE_SIZE

\* the size check of recv_bytes
recv_too_big(len) == len > MAX_MESSAGE_SIZE

\* send_bytes entered; the size check either fails the call or lets it write
send_bytes_call(e, d) ==
    /\ ch[e].pc = "idle"
    /\ calls < MaxCalls
    /\ calls' = calls + 1
    /\ IF send_too_big(d)
       THEN /\ ch' = [ch EXCEPT ![e] = [IdleEnd EXCEPT
                        !.data = d,
                        !.res = BufferTooSmall("send", RLen(d), MAX_MESSAGE_SIZE)]]
            /\ UNCHANGED sent
       ELSE /\ ch' = [ch EXCEPT ![e] = [IdleEnd EXCEPT !.pc = "send_hdr", !.data = d]]
            /\ sent' = [sent EXCEPT ![e] = Append(@, d)]
    /\ UNCHANGED <<fifo, rcvd, notChan>>

\* self.pipe.write_all(&len.to_le_bytes())
send_bytes_write_header(e) ==
    /\ ch[e].pc = "send_hdr"
    /\ fifo' = RCat(fifo, to_le_bytes(RLen(ch[e].data)))
    /\ ch' = [ch EXCEPT ![e].pc = "send_data"]
    /\ UNCHANGED <<sent, rcvd, calls, notChan>>

\* self.pipe.write_all(data); Ok(())
send_bytes_write_data(e) ==
    /\ ch[e].pc = "send_data"
    /\ fifo' = RCat(fifo, ch[e].data)
    /\ ch' = [ch EXCEPT ![e].pc = "idle", ![e].res = OkSend]
    /\ UNCHANGED <<sent, rcvd, calls, notChan>>

\* recv_bytes entered: read_exact of the 4 header bytes begins
recv_bytes_call(e) ==
    /\ ch[e].pc = "idle"
    /\ calls < MaxCalls
    /\ calls' = calls + 1
    /\ ch' = [ch EXCEPT ![e] = [IdleEnd EXCEPT !.pc = "recv_hdr", !.need = HEADER_SIZE]]
    /\ UNCHANGED <<fifo, sent, rcvd, notChan>>

\* what recv_bytes does once its header is complete
after_header(e, hdr) ==
    LET len == from_le_bytes(hdr)
    IN  IF recv_too_big(len)
        THEN /\ ch' = [ch EXCEPT ![e] = [IdleEnd EXCEPT
                         !.res = BufferTooSmall("recv", len, MAX_MESSAGE_SIZE)]]
             /\ rcvd' = [rcvd EXCEPT ![e] = Append(@, BufferTooSmall("recv", len, MAX_MESSAGE_SIZE))]
        ELSE IF len = 0
        THEN /\ ch' = [ch EXCEPT ![e] = [IdleEnd EXCEPT !.res = OkRecv(<<>>)]]
             /\ rcvd' = [rcvd EXCEPT ![e] = Append(@, OkRecv(<<>>))]
        ELSE /\ ch' = [ch EXCEPT ![e] = [IdleEnd EXCEPT !.pc = "recv_data", !.need = len]]
             /\ UNCHANGED rcvd

\* one read(2) inside a read_exact: blocks on an empty FIFO, otherwise takes
\* min(wanted, available) bytes
recv_bytes_read(e) ==
    /\ ch[e].pc \in {"recv_hdr", "recv_data"}
    /\ fifo # <<>>
    /\ LET n   == IF ch[e].need <= RLen(fifo) THEN ch[e].need ELSE RLen(fifo)
           got == RCat(ch[e].buf, RTake(fifo, n))
       IN  /\ fifo' = RDrop(fifo, n)
           /\ IF n < ch[e].need
              THEN /\ ch' = [ch EXCEPT ![e].buf = got, ![e].need = @ - n]
                   /\ UNCHANGED rcvd
              ELSE IF ch[e].pc = "recv_hdr"
              THEN after_header(e, got)
              ELSE /\ ch' = [ch EXCEPT ![e] = [IdleEnd EXCEPT !.res = OkRecv(got)]]
                   /\ rcvd' = [rcvd EXCEPT ![e] = Append(@, OkRecv(got))]
    /\ UNCHANGED <<sent, calls, notChan>>

ChanNext ==
    \/ \E e \in Ends, d \in Payloads : send_bytes_call(e, d)
    \/ \E e \in Ends : send_bytes_write_header(e)
    \/ \E e \in Ends : send_bytes_write_data(e)
    \/ \E e \in Ends : recv_bytes_call(e)
    \/ \E e \in Ends : recv_bytes_read(e)

(***************************************************************************)
(* event_stream.rs: EventFilter                                            *)
(* A string is a sequence of one-character strings.                        *)
(***************************************************************************)

\* Option: None is the empty sequence and Some(x) the sequence of x alone
None == <<>>

Some(x) == <<x>>

StartsWith(str, prefix) ==
    Len(prefix) <= Len(str) /\ SubSeq(str, 1, Len(prefix)) = prefix

EndsWith(str, suffix) ==
    Len(suffix) <= Len(str) /\ SubSeq(str, Len(str) - Len(suffix) + 1, Len(str)) = suffix

\* str.find(part): the 0-based index of the first occurrence, -1 when there is none
Find(str, part) ==
    LET hits == {k \in 0..(Len(str) - Len(part)) : SubSeq(str, k + 1, k + Len(part)) = part}
    IN  IF hits = {} THEN -1 ELSE CHOOSE k \in hits : \A j \in hits : k <= j

\* pattern.split('*')
RECURSIVE Split(_)
Split(pattern) ==
    LET k == Find(pattern, <<"*">>)
    IN  IF k = -1 THEN <<pattern>>
        ELSE <<SubSeq(pattern, 1, k)>> \o Split(SubSeq(pattern, k + 2, Len(pattern)))

\* the loop over the parts of a glob pattern
RECURSIVE GlobLoop(_, _, _, _)
GlobLoop(parts, i, pos, str) ==
    IF i > Len(parts) THEN TRUE
    ELSE IF parts[i] = <<>> THEN GlobLoop(parts, i + 1, pos, str)
    ELSE LET found == Find(SubSeq(str, pos + 1, Len(str)), parts[i])
         IN  IF found = -1 THEN FALSE
             ELSE IF i = 1 /\ found # 0 THEN FALSE
             ELSE GlobLoop(parts, i + 1, pos + found + Len(parts[i]), str)

\* a pattern taken literally
pattern_matches_exact(pattern, event_type) == event_type = pattern

\* one event-type pattern against an event type
pattern_matches(pattern, event_type) ==
    IF EndsWith(pattern, <<".", "*">>)
    THEN StartsWith(event_type, SubSeq(pattern, 1, Len(pattern) - 2))
    ELSE IF Find(pattern, <<"*">>) # -1
    THEN GlobLoop(Split(pattern), 1, 0, event_type)
    ELSE event_type = pattern

\* EventFilter::matches
matches(f, e) ==
    /\ f.event_types # None =>
           \E k \in 1..Len(f.event_types[1]) :
               pattern_matches(f.event_types[1][k], e.event_type)
    /\ f.resource_ids # None =>
           /\ e.resource_id # None
           /\ \E k \in 1..Len(f.resource_ids[1]) : f.resource_ids[1][k] = e.resource_id[1]
    /\ f.since # None => ~(e.timestamp < f.since[1])
    /\ f.until # None => ~(e.timestamp > f.until[1])

(***************************************************************************)
(* event_stream.rs: EventBus.  Publishers run on their own threads; the    *)
(* append to history, taking the read lock of the subscriber registry and  *)
(* each send to a subscriber are separate steps of publish.                *)
(***************************************************************************)

Publishers == {"p1", "p2"}

MaxEvents == 2

\* the subscriptions the bus can hold, in the order they are made
SubIds == {1, 2}

MaxHistory == 1

MaxBuffer == 1

Policies == {"DropOldest", "DropNewest", "Block"}

TASK_STARTED == <<"t", ".", "s">>

TASK_DONE == <<"t", ".", "d">>

LOG_INFO == <<"l", ".", "i">>

\* EventFilter::new() and the builders applied to it
EmptyFilter == [event_types |-> None, resource_ids |-> None, since |-> None, until |-> None]

Filters ==
    { EmptyFilter,
      [EmptyFilter EXCEPT !.event_types = Some(<<(<<"t", ".", "*">>)>>)],
      [EmptyFilter EXCEPT !.event_types = Some(<<(<<"*", ".", "d">>)>>), !.since = Some(1)] }

\* the events the publishers create: type, resource id, timestamp
EventInputs ==
    { <<TASK_STARTED, None, 0>>, <<TASK_DONE, Some("r1"), 1>>, <<LOG_INFO, Some("r1"), 0>> }

IdlePublisher == [pc |-> "idle", event |-> None, i |-> 0]

BusInit ==
    /\ config \in [history_size : 0..MaxHistory, subscriber_buffer : 1..MaxBuffer,
                   slow_consumer : Policies]
    /\ history = <<>>
    /\ subscribers = <<>>
    /\ readers = {}
    /\ pub = [p \in Publishers |-> IdlePublisher]
    /\ next_event_id = 1
    /\ delivered = <<>>
    /\ publog = <<>>
    /\ pubsince = <<>>

BusIdle ==
    /\ config = [history_size |-> 0, subscriber_buffer |-> 1, slow_consumer |-> "DropOldest"]
    /\ history = <<>>
    /\ subscribers = <<>>
    /\ readers = {}
    /\ pub = [p \in Publishers |-> IdlePublisher]
    /\ next_event_id = 1
    /\ delivered = <<>>
    /\ publog = <<>>
    /\ pubsince = <<>>

\* while history.len() > history_size { pop_front }, popping at the wrong end
trim_newest(h, size) == IF Len(h) > size THEN SubSeq(h, 1, size) ELSE h

\* while history.len() > history_size { history.pop_front() }
RECURSIVE trim(_, _)
trim(h, size) == IF Len(h) > size THEN trim(Tail(h), size) ELSE h

\* Event::new / Event::with_resource, then publish entered
publish_call(p, ty, rid, ts) ==
    /\ pub[p].pc = "idle"
    /\ next_event_id <= MaxEvents
    /\ pub' = [pub EXCEPT ![p] =
                 [pc |-> "history",
                  event |-> [id |-> next_event_id, timestamp |-> ts,
                             event_type |-> ty, resource_id |-> rid],
                  i |-> 0]]
    /\ next_event_id' = next_event_id + 1
    /\ UNCHANGED <<config, history, subscribers, readers, delivered, publog, pubsince, notBus>>

\* the block that holds history.write(): push_back and trim
publish_history(p) ==
    /\ pub[p].pc = "history"
    /\ history' = trim(Append(history, pub[p].event), config.history_size)
    /\ publog' = Append(publog, pub[p].event.id)
    /\ pubsince' = Append(pubsince, pub[p].event)
    /\ pub' = [pub EXCEPT ![p].pc = "lock"]
    /\ UNCHANGED <<config, subscribers, readers, next_event_id, delivered, notBus>>

\* let subscribers = self.subscribers.read()
publish_lock(p) ==
    /\ pub[p].pc = "lock"
    /\ readers' = readers \cup {p}
    /\ pub' = [pub EXCEPT ![p].pc = "loop", ![p].i = 1]
    /\ UNCHANGED <<config, history, subscribers, next_event_id, delivered, publog, pubsince, notBus>>

Full_never(sub) == FALSE

\* try_send / send on crossbeam_channel::bounded(subscriber_buffer): no room
Full(sub) == Len(sub.queue) >= config.subscriber_buffer

\* if sub.filter.matches(&event), with the test left out
accepts_all(sub, e) == TRUE

\* if sub.filter.matches(&event)
accepts(sub, e) == matches(sub.filter, e)

\* one iteration of for sub in subscribers.iter(): a blocking send under Block,
\* a try_send under the two Drop policies
publish_deliver(p) ==
    /\ pub[p].pc = "loop"
    /\ pub[p].i <= Len(subscribers)
    /\ LET i == pub[p].i
           sub == subscribers[i]
       IN  IF accepts(sub, pub[p].event)
           THEN IF Full(sub)
                THEN /\ config.slow_consumer # "Block"
                     /\ UNCHANGED subscribers
                ELSE subscribers' = [subscribers EXCEPT ![i].queue = Append(@, pub[p].event)]
           ELSE UNCHANGED subscribers
    /\ pub' = [pub EXCEPT ![p].i = @ + 1]
    /\ UNCHANGED <<config, history, readers, next_event_id, delivered, publog, pubsince, notBus>>

\* the loop is over: the read guard is dropped and publish returns
publish_return(p) ==
    /\ pub[p].pc = "loop"
    /\ pub[p].i > Len(subscribers)
    /\ readers' = readers \ {p}
    /\ pub' = [pub EXCEPT ![p] = IdlePublisher]
    /\ UNCHANGED <<config, history, subscribers, next_event_id, delivered, publog, pubsince, notBus>>

\* EventBusInner::subscribe: the push under subscribers.write()
subscribe(f) ==
    /\ Len(subscribers) + 1 \in SubIds
    /\ readers = {}
    /\ subscribers' = Append(subscribers, [filter |-> f, queue |-> <<>>])
    /\ delivered' = Append(delivered, <<>>)
    /\ UNCHANGED <<config, history, readers, pub, next_event_id, publog, pubsince, notBus>>

\* one pass of the loop shared by recv, try_recv and recv_timeout: take the next
\* event of the channel; return it if the subscriber's filter matches, else loop
receive_one(s) ==
    /\ subscribers[s].queue # <<>>
    /\ subscribers' = [subscribers EXCEPT ![s].queue = Tail(@)]
    /\ IF matches(subscribers[s].filter, Head(subscribers[s].queue))
       THEN delivered' = [delivered EXCEPT ![s] = Append(@, Head(subscribers[s].queue))]
       ELSE UNCHANGED delivered

\* EventSubscriber::recv (also iter): blocks while the channel is empty
EventSubscriber_recv(s) ==
    /\ s \in 1..Len(subscribers)
    /\ receive_one(s)
    /\ UNCHANGED <<config, history, readers, pub, next_event_id, publog, pubsince, notBus>>

\* EventSubscriber::try_recv (also try_iter): None on an empty channel
EventSubscriber_try_recv(s) ==
    /\ s \in 1..Len(subscribers)
    /\ IF subscribers[s].queue = <<>>
       THEN UNCHANGED <<subscribers, delivered>>
       ELSE receive_one(s)
    /\ UNCHANGED <<config, history, readers, pub, next_event_id, publog, pubsince, notBus>>

\* EventSubscriber::recv_timeout: Timeout when the channel stays empty
EventSubscriber_recv_timeout(s) ==
    /\ s \in 1..Len(subscribers)
    /\ IF subscribers[s].queue = <<>>
       THEN UNCHANGED <<subscribers, delivered>>
       ELSE receive_one(s)
    /\ UNCHANGED <<config, history, readers, pub, next_event_id, publog, pubsince, notBus>>

\* EventBusInner::history(filter)
history_query(f) == SelectSeq(history, LAMBDA e : matches(f, e))

\* EventBusInner::clear_history
clear_history ==
    /\ history # <<>>
    /\ history' = <<>>
    /\ pubsince' = <<>>
    /\ UNCHANGED <<config, subscribers, readers, pub, next_event_id, delivered, publog, notBus>>

BusNext ==
    \/ \E p \in Publishers, in \in EventInputs : publish_call(p, in[1], in[2], in[3])
    \/ \E p \in Publishers : publish_history(p)
    \/ \E p \in Publishers : publish_lock(p)
    \/ \E p \in Publishers : publish_deliver(p)
    \/ \E p \in Publishers : publish_return(p)
    \/ \E f \in Filters : subscribe(f)
    \/ \E s \in SubIds : EventSubscriber_recv(s)
    \/ \E s \in SubIds : EventSubscriber_try_recv(s)
    \/ \E s \in SubIds : EventSubscriber_recv_timeout(s)
    \/ clear_history

(***************************************************************************)
(* Claims about the framed channel                                         *)
(***************************************************************************)

IsPrefix(s, t) == Len(s) <= Len(t) /\ \A i \in 1..Len(s) : s[i] = t[i]

\* C1: what one end receives is, in order and byte for byte, a prefix of what
\* its peer sent: every recv_bytes returns Ok with the next frame of the peer,
\* none lost, duplicated, merged, split or read back by its own sender.
C1_PeerReceivesFramesInOrder ==
    \A e \in Ends :
        /\ \A i \in 1..Len(rcvd[e]) : rcvd[e][i].kind = "Ok"
        /\ IsPrefix([i \in 1..Len(rcvd[e]) |-> rcvd[e][i].data], sent[Peer(e)])

\* C7: a send_bytes of at most 16 MiB (16,777,216 bytes, the limit included)
\* succeeds; a longer one returns BufferTooSmall{needed: its length, got:
\* 16 MiB}, and the step that fails it leaves the byte stream as it was.
C7_OversizeSendRejectedBeforeWrite ==
    /\ [](\A e \in Ends :
            (ch[e].res.op = "send") =>
                IF RLen(ch[e].data) <= 16777216
                THEN ch[e].res = OkSend
                ELSE ch[e].res = BufferTooSmall("send", RLen(ch[e].data), 16777216))
    /\ [][\A e \in Ends :
            (ch'[e] # ch[e] /\ ch'[e].res.op = "send" /\ ch'[e].res.kind = "BufferTooSmall")
                => (fifo' = fifo /\ sent' = sent /\ ch'[e].pc = "idle")]_vars

\* a 16 MiB frame was sent and received while another send was refused
C7_Witness ==
    \E e \in Ends :
        /\ ch[e].res = OkSend
        /\ ch[Peer(e)].res = OkRecv(Run(0, 16777216))
        /\ sent[e] = <<Run(0, 16777216)>>
        /\ sent[Peer(e)] = <<>>
        /\ calls = 3

(***************************************************************************)
(* graceful.rs: ShutdownState, used by several threads.  Every atomic      *)
(* load, store, fetch_add and fetch_sub is one step.                       *)
(***************************************************************************)

Threads == {"t1", "t2", "t3"}

MaxShutOps == 4

IdleThread ==
    [pc |-> "idle", op |-> "none", guards |-> 0, res |-> "none", after |-> FALSE,
     timeout |-> FALSE, polled |-> 0, held |-> 0]

ShutInit ==
    /\ shutdown = FALSE
    /\ pending_count = 0
    /\ sh = [t \in Threads |-> IdleThread]
    /\ shutdown_returned = FALSE
    /\ shops = 0

\* the guards held by all threads together
RECURSIVE SumGuards(_)
SumGuards(T) ==
    IF T = {} THEN 0
    ELSE LET t == CHOOSE x \in T : TRUE IN sh[t].guards + SumGuards(T \ {t})

GuardsHeld == SumGuards(Threads)

\* ShutdownState::shutdown: the store, and the return
ShutdownState_shutdown(t) ==
    /\ sh[t].pc = "idle"
    /\ shops < MaxShutOps
    /\ shops' = shops + 1
    /\ shutdown' = TRUE
    /\ shutdown_returned' = TRUE
    /\ sh' = [sh EXCEPT ![t].res = "none", ![t].op = "shutdown"]
    /\ UNCHANGED <<pending_count, notShut>>

\* begin_operation entered
begin_operation_call(t) ==
    /\ sh[t].pc = "idle"
    /\ shops < MaxShutOps
    /\ shops' = shops + 1
    /\ sh' = [sh EXCEPT ![t].pc = "bo_check1", ![t].op = "begin", ![t].res = "none",
                        ![t].after = shutdown_returned]
    /\ UNCHANGED <<shutdown, pending_count, shutdown_returned, notShut>>

\* the outcome of the first is_shutdown() test of begin_operation
first_check_skipped(flag) == FALSE

first_check(flag) == flag

\* if self.is_shutdown() { return Err(Closed) }
begin_operation_check1(t) ==
    /\ sh[t].pc = "bo_check1"
    /\ IF first_check(shutdown)
       THEN sh' = [sh EXCEPT ![t].pc = "idle", ![t].res = "Closed"]
       ELSE sh' = [sh EXCEPT ![t].pc = "bo_inc"]
    /\ UNCHANGED <<shutdown, pending_count, shutdown_returned, shops, notShut>>

\* self.pending_count.fetch_add(1)
begin_operation_inc(t) ==
    /\ sh[t].pc = "bo_inc"
    /\ pending_count' = pending_count + 1
    /\ sh' = [sh EXCEPT ![t].pc = "bo_check2"]
    /\ UNCHANGED <<shutdown, shutdown_returned, shops, notShut>>

\* begin_operation without the second test: the guard is handed out
begin_operation_check2_skipped(t) ==
    /\ sh[t].pc = "bo_check2"
    /\ sh' = [sh EXCEPT ![t].pc = "idle", ![t].res = "Ok", ![t].guards = @ + 1]
    /\ UNCHANGED <<shutdown, pending_count, shutdown_returned, shops, notShut>>

\* the second is_shutdown() test: back out, or hand out the guard
begin_operation_check2(t) ==
    /\ sh[t].pc = "bo_check2"
    /\ IF shutdown
       THEN sh' = [sh EXCEPT ![t].pc = "bo_dec"]
       ELSE sh' = [sh EXCEPT ![t].pc = "idle", ![t].res = "Ok", ![t].guards = @ + 1]
    /\ UNCHANGED <<shutdown, pending_count, shutdown_returned, shops, notShut>>

\* self.pending_count.fetch_sub(1); return Err(Closed)
begin_operation_dec(t) ==
    /\ sh[t].pc = "bo_dec"
    /\ pending_count' = pending_count - 1
    /\ sh' = [sh EXCEPT ![t].pc = "idle", ![t].res = "Closed"]
    /\ UNCHANGED <<shutdown, shutdown_returned, shops, notShut>>

\* what dropping one guard leaves in the counter, with the decrement forgotten
guard_release_forgotten(n) == n

\* what dropping one guard leaves in the counter
guard_release(n) == n - 1

\* OperationGuard::drop
OperationGuard_drop(t) ==
    /\ sh[t].pc = "idle"
    /\ sh[t].guards > 0
    /\ pending_count' = guard_release(pending_count)
    /\ sh' = [sh EXCEPT ![t].guards = @ - 1]
    /\ UNCHANGED <<shutdown, shutdown_returned, shops, notShut>>

\* wait_for_drain(timeout) entered
wait_for_drain_call(t, tmo) ==
    /\ sh[t].pc = "idle"
    /\ shops < MaxShutOps
    /\ shops' = shops + 1
    /\ sh' = [sh EXCEPT ![t].pc = "wd_poll", ![t].op = "drain", ![t].res = "none",
                        ![t].timeout = tmo,
                        ![t].after = shutdown_returned, ![t].polled = 0, ![t].held = 0]
    /\ UNCHANGED <<shutdown, pending_count, shutdown_returned, notShut>>

\* if self.pending_count() == 0 { return Ok(()) }
wait_for_drain_poll(t) ==
    /\ sh[t].pc = "wd_poll"
    /\ IF pending_count = 0
       THEN sh' = [sh EXCEPT ![t].pc = "idle", ![t].res = "Ok", ![t].polled = 0]
       ELSE sh' = [sh EXCEPT ![t].pc = "wd_deadline", ![t].polled = pending_count,
                             ![t].held = GuardsHeld]
    /\ UNCHANGED <<shutdown, pending_count, shutdown_returned, shops, notShut>>

\* if start.elapsed() >= timeout { return Err(Timeout) }: the deadline may or
\* may not have passed
wait_for_drain_timeout(t) ==
    /\ sh[t].pc = "wd_deadline"
    /\ sh[t].timeout
    /\ sh' = [sh EXCEPT ![t].pc = "idle", ![t].res = "Timeout"]
    /\ UNCHANGED <<shutdown, pending_count, shutdown_returned, shops, notShut>>

\* the deadline has not passed, or there is none: sleep 1 ms and poll again
wait_for_drain_sleep(t) ==
    /\ sh[t].pc = "wd_deadline"
    /\ sh' = [sh EXCEPT ![t].pc = "wd_poll"]
    /\ UNCHANGED <<shutdown, pending_count, shutdown_returned, shops, notShut>>

\* the steps a thread takes inside a call it has entered
ShutStep(t) ==
    \/ begin_operation_check1(t)
    \/ begin_operation_inc(t)
    \/ begin_operation_check2(t)
    \/ begin_operation_dec(t)
    \/ wait_for_drain_poll(t)
    \/ wait_for_drain_sleep(t)

ShutNext ==
    \/ \E t \in Threads : ShutdownState_shutdown(t)
    \/ \E t \in Threads : begin_operation_call(t)
    \/ \E t \in Threads : OperationGuard_drop(t)
    \/ \E t \in Threads, tmo \in BOOLEAN : wait_for_drain_call(t, tmo)
    \/ \E t \in Threads : wait_for_drain_timeout(t)
    \/ \E t \in Threads : ShutStep(t)

(***************************************************************************)
(* Claims about ShutdownState                                              *)
(***************************************************************************)

\* C3: once a shutdown() call has returned the flag stays set, and a
\* begin_operation entered after that return fails with Closed at its first
\* test: it never reaches the increment, so it hands out no guard and leaves
\* pending_count alone.
C3_BeginAfterShutdownIsClosed ==
    /\ shutdown_returned => shutdown
    /\ \A t \in Threads :
        (sh[t].op = "begin" /\ sh[t].after) =>
            /\ sh[t].pc \in {"idle", "bo_check1"}
            /\ sh[t].pc = "idle" => sh[t].res = "Closed"

\* a begin_operation entered after shutdown() returned has failed with Closed
\* while another thread still holds a guard
C3_Witness ==
    \E t \in Threads, u \in Threads :
        /\ sh[t].op = "begin" /\ sh[t].after /\ sh[t].pc = "idle" /\ sh[t].res = "Closed"
        /\ sh[u].guards > 0 /\ pending_count = sh[u].guards

\* C9 as stated: a wait_for_drain(Some(t)) entered after shutdown() returns
\* Timeout only if some guard was still held in the loop iteration that checked
\* the deadline (sh[t].held is the number of guards held when that iteration
\* polled the counter).
C9_TimeoutOnlyWithGuardHeld ==
    \A t \in Threads :
        (sh[t].op = "drain" /\ sh[t].after /\ sh[t].res = "Timeout") => sh[t].held > 0

\* C9 as amended: after shutdown(), once no guard is held, a wait_for_drain(None)
\* in progress returns Ok; and wait_for_drain(Some(t)) returns Timeout only if
\* pending_count was non-zero at the poll before the deadline check.
C9_DrainTerminates ==
    /\ \A t \in Threads :
        (shutdown /\ GuardsHeld = 0 /\ sh[t].pc \in {"wd_poll", "wd_deadline"} /\ ~sh[t].timeout)
            ~> (sh[t].pc = "idle" /\ sh[t].res = "Ok")
    /\ [](\A t \in Threads : (sh[t].op = "drain" /\ sh[t].res = "Timeout") => sh[t].polled > 0)

\* a wait_for_drain(None) is waiting after shutdown() while a guard is held, and
\* a wait_for_drain(Some(t)) has timed out
C9_Witness ==
    \E t \in Threads, u \in Threads, w \in Threads :
        /\ shutdown
        /\ sh[t].pc = "wd_deadline" /\ ~sh[t].timeout /\ sh[t].after
        /\ sh[u].guards > 0
        /\ sh[w].res = "Timeout"

\* the threads that have incremented pending_count inside begin_operation
\* and have neither got their guard nor taken the increment back
InsideBegin == {t \in Threads : sh[t].pc \in {"bo_check2", "bo_dec"}}

\* C27: with begin_operation, shutdown and wait_for_drain on different
\* threads: when a wait_for_drain entered after shutdown() returned has
\* returned Ok, no guard is held; with the flag set no guard is handed out;
\* a begin_operation whose second test finds the flag set takes its increment
\* back and returns Closed; and pending_count is the number of guards held
\* plus the number of threads between the increment and its outcome, so it
\* never goes below zero.
C27_NoGuardAfterDrain ==
    /\ [](/\ \A t \in Threads :
                (sh[t].op = "drain" /\ sh[t].after /\ sh[t].pc = "idle" /\ sh[t].res = "Ok")
                    => GuardsHeld = 0
          /\ pending_count = GuardsHeld + Cardinality(InsideBegin)
          /\ pending_count >= 0)
    /\ [][\A t \in Threads :
            /\ shutdown => sh'[t].guards <= sh[t].guards
            /\ (shutdown /\ sh[t].pc = "bo_check2" /\ sh'[t] # sh[t]) =>
                    /\ sh'[t].pc = "bo_dec"
                    /\ sh'[t].guards = sh[t].guards
            /\ (sh[t].pc = "bo_dec" /\ sh'[t] # sh[t]) =>
                    /\ sh'[t].pc = "idle" /\ sh'[t].res = "Closed"
                    /\ pending_count' = pending_count - 1]_vars

\* a begin_operation passed its first test before the shutdown; shutdown()
\* returned, a wait_for_drain entered after it found the counter at 0 and
\* returned Ok, and only then did the begin_operation increment: it is backing
\* out, with the counter at 1 and no guard held
C27_Witness ==
    \E t \in Threads, u \in Threads :
        /\ shutdown_returned
        /\ sh[t].op = "drain" /\ sh[t].after /\ sh[t].pc = "idle" /\ sh[t].res = "Ok"
        /\ sh[u].op = "begin" /\ ~sh[u].after /\ sh[u].pc = "bo_dec"
        /\ pending_count = 1
        /\ GuardsHeld = 0

(***************************************************************************)
(* Claims about the event bus                                              *)
(***************************************************************************)

\* the place of an event in the order in which publish appended to history
PubIndex(id) == CHOOSE k \in 1..Len(publog) : publog[k] = id

\* C4: the events a subscriber receives are in publication order (the order
\* in which publish appended them to the history), none of them twice, also
\* when several threads publish.
C4_DeliveredInPublicationOrder ==
    \A s \in 1..Len(delivered) :
        \A i \in 1..Len(delivered[s]), j \in 1..Len(delivered[s]) :
            i < j => PubIndex(delivered[s][i].id) < PubIndex(delivered[s][j].id)

\* C5: every event an EventSubscriber returns, and every event waiting in its
\* channel, satisfies its filter; and when publish passes a subscriber it
\* enqueues the event there exactly if the filter matches and the channel has
\* room, leaving every other subscriber's channel as it is.
C5_OnlyMatchingEventsDelivered ==
    /\ [](\A s \in 1..Len(subscribers) :
            /\ \A k \in 1..Len(delivered[s]) : matches(subscribers[s].filter, delivered[s][k])
            /\ \A k \in 1..Len(subscribers[s].queue) :
                   matches(subscribers[s].filter, subscribers[s].queue[k]))
    /\ [][\A p \in Publishers :
            (pub[p].pc = "loop" /\ pub'[p].pc = "loop" /\ pub'[p].i = pub[p].i + 1) =>
                \A s \in 1..Len(subscribers) :
                    subscribers'[s].queue =
                        IF /\ s = pub[p].i
                           /\ matches(subscribers[s].filter, pub[p].event)
                           /\ Len(subscribers[s].queue) < config.subscriber_buffer
                        THEN Append(subscribers[s].queue, pub[p].event)
                        ELSE subscribers[s].queue]_vars

\* an event was refused by the first subscriber's filter and returned by the
\* second subscriber
C5_Witness ==
    /\ Len(subscribers) = 2
    /\ \E k \in 1..Len(delivered[2]) :
        /\ ~matches(subscribers[1].filter, delivered[2][k])
        /\ PubIndex(delivered[2][k].id) = 1
    /\ \A p \in Publishers : pub[p].pc = "idle"

\* the last n elements of a sequence
LastN(q, n) == SubSeq(q, Len(q) - n + 1, Len(q))

Min(a, b) == IF a <= b THEN a ELSE b

TaskThreads == {"a", "b"}

MaxTasks == 2

MaxTaskOps == 4

TaskIds == 1..MaxTasks

\* the ids a caller may pass: those of tasks and one no task ever has
AnyId == 1..(MaxTasks + 1)

ProgressInputs == {50, 150}

TaskStatus == {"Pending", "Running", "Paused", "Completed", "Failed", "Cancelled"}

is_terminal(status) == status \in {"Completed", "Failed", "Cancelled"}

\* TaskState::new of the TaskInfo that create builds
NewTaskState ==
    [status |-> "Pending", progress |-> 0, progress_message |-> None,
     started_at |-> None, finished_at |-> None, error |-> None, result |-> None,
     cancelled |-> FALSE,
     ever_terminal |-> FALSE]   \* history: the status has been terminal at some time

\* an event that does not name the task it is about
TaskEvent_no_resource(ty, id, d) == [event_type |-> ty, resource_id |-> 0, data |-> d]

\* Event::with_resource(event_type, task_id, data), as the publisher helpers build it
TaskEvent(ty, id, d) == [event_type |-> ty, resource_id |-> id, data |-> d]

\* Event::progress(resource_id, current, total, message): the data of the event
Event_progress(current, total, message) ==
    [current |-> current, total |-> total,
     percentage |-> IF total > 0 THEN (current * 100) \div total ELSE 0,
     message |-> message]

\* snap is the TaskInfo that info() / get() is putting together
\* now and todo are the locals of cleanup: its SystemTime::now() and the
\* entries of tasks that retain has still to visit
IdleTaskThread ==
    [pc |-> "idle", op |-> "none", id |-> 0, arg |-> 0, pre |-> "none", res |-> "none",
     snap |-> None, now |-> 0, todo |-> {}]

\* some thread is inside cleanup, which holds the write lock of tasks throughout
tasks_write_locked == \E t \in TaskThreads : tk[t].op = "cleanup" /\ tk[t].pc # "idle"

TaskInit ==
    /\ tasks = {}
    /\ tasks_readers = {}
    /\ task_state = <<>>
    /\ next_id = 1
    /\ tk = [t \in TaskThreads |-> IdleTaskThread]
    /\ task_events = <<>>
    /\ taskops = 0

TaskIdle == TaskInit

\* a call begins: t is idle and the bound on calls is not used up
TaskCall(t) ==
    /\ tk[t].pc = "idle"
    /\ taskops < MaxTaskOps
    /\ taskops' = taskops + 1

Enter(t, op, id, pc) == [IdleTaskThread EXCEPT !.pc = pc, !.op = op, !.id = id]

Return(t, res) == [tk EXCEPT ![t].pc = "idle", ![t].res = res]

\* TaskState::set_status
set_status(id, status) ==
    task_state' = [task_state EXCEPT ![id].status = status,
                                     ![id].ever_terminal = @ \/ is_terminal(status)]

\* create: self.next_id.fetch_add(1)
TaskManager_create(t) ==
    /\ TaskCall(t)
    /\ next_id <= MaxTasks
    /\ next_id' = next_id + 1
    /\ tk' = [tk EXCEPT ![t] = Enter(t, "create", next_id, "create_insert")]
    /\ UNCHANGED <<tasks, tasks_readers, task_state, task_events, notTask>>

\* create: self.tasks.write().insert(id, state)
create_insert(t) ==
    /\ tk[t].pc = "create_insert"
    /\ tasks_readers = {}
    /\ ~tasks_write_locked
    /\ tasks' = tasks \cup {tk[t].id}
    /\ task_state' = [i \in DOMAIN task_state \cup {tk[t].id} |->
                        IF i = tk[t].id THEN NewTaskState ELSE task_state[i]]
    /\ tk' = [tk EXCEPT ![t].pc = "create_publish"]
    /\ UNCHANGED <<tasks_readers, next_id, task_events, taskops, notTask>>

\* create: publish task.created and return the handle
create_publish(t) ==
    /\ tk[t].pc = "create_publish"
    /\ task_events' = Append(task_events, TaskEvent("task.created", tk[t].id, 0))
    /\ tk' = Return(t, "Handle")
    /\ UNCHANGED <<tasks, tasks_readers, task_state, next_id, taskops, notTask>>

\* TaskHandle::start: set_status(Running)
TaskHandle_start(t, id) ==
    /\ TaskCall(t)
    /\ id \in DOMAIN task_state
    /\ set_status(id, "Running")
    /\ tk' = [tk EXCEPT ![t] = Enter(t, "start", id, "start_started_at")]
    /\ UNCHANGED <<tasks, tasks_readers, next_id, task_events, notTask>>

\* start: info.write().started_at = Some(now)
start_started_at(t) ==
    /\ tk[t].pc = "start_started_at"
    /\ task_state' = [task_state EXCEPT ![tk[t].id].started_at = Some("now")]
    /\ tk' = [tk EXCEPT ![t].pc = "start_publish"]
    /\ UNCHANGED <<tasks, tasks_readers, next_id, task_events, taskops, notTask>>

\* start: publisher.task_started
start_publish(t) ==
    /\ tk[t].pc = "start_publish"
    /\ task_events' = Append(task_events, TaskEvent("task.started", tk[t].id, 0))
    /\ tk' = Return(t, "Unit")
    /\ UNCHANGED <<tasks, tasks_readers, task_state, next_id, taskops, notTask>>

\* TaskHandle::complete: set_status(Completed)
TaskHandle_complete(t, id) ==
    /\ TaskCall(t)
    /\ id \in DOMAIN task_state
    /\ set_status(id, "Completed")
    /\ tk' = [tk EXCEPT ![t] = Enter(t, "complete", id, "complete_set_progress")]
    /\ UNCHANGED <<tasks, tasks_readers, next_id, task_events, notTask>>

\* set_progress storing the u8 it was given
clamp_none(progress) == progress

\* set_progress: progress.min(100)
clamp(progress) == IF progress < 100 THEN progress ELSE 100

\* TaskState::set_progress
set_progress(id, progress, message) ==
    task_state' = [task_state EXCEPT
        ![id].progress = clamp(progress),
        ![id].progress_message = IF message = None THEN @ ELSE message]

\* complete: set_progress(100, Some("Completed"))
complete_set_progress(t) ==
    /\ tk[t].pc = "complete_set_progress"
    /\ set_progress(tk[t].id, 100, Some("Completed"))
    /\ tk' = [tk EXCEPT ![t].pc = "complete_finish"]
    /\ UNCHANGED <<tasks, tasks_readers, next_id, task_events, taskops, notTask>>

\* complete: finished_at = Some(now); result = Some(result)
complete_finish(t) ==
    /\ tk[t].pc = "complete_finish"
    /\ task_state' = [task_state EXCEPT ![tk[t].id].finished_at = Some(clock),
                                        ![tk[t].id].result = Some("result")]
    /\ tk' = [tk EXCEPT ![t].pc = "complete_publish"]
    /\ UNCHANGED <<tasks, tasks_readers, next_id, task_events, taskops, notTask>>

\* complete: publisher.task_completed
complete_publish(t) ==
    /\ tk[t].pc = "complete_publish"
    /\ task_events' = Append(task_events, TaskEvent("task.completed", tk[t].id, 0))
    /\ tk' = Return(t, "Unit")
    /\ UNCHANGED <<tasks, tasks_readers, task_state, next_id, taskops, notTask>>

\* TaskHandle::fail: set_status(Failed)
TaskHandle_fail(t, id) ==
    /\ TaskCall(t)
    /\ id \in DOMAIN task_state
    /\ set_status(id, "Failed")
    /\ tk' = [tk EXCEPT ![t] = Enter(t, "fail", id, "fail_finish")]
    /\ UNCHANGED <<tasks, tasks_readers, next_id, task_events, notTask>>

\* fail: finished_at = Some(now); error = Some(error)
fail_finish(t) ==
    /\ tk[t].pc = "fail_finish"
    /\ task_state' = [task_state EXCEPT ![tk[t].id].finished_at = Some(clock),
                                        ![tk[t].id].error = Some("error")]
    /\ tk' = [tk EXCEPT ![t].pc = "fail_publish"]
    /\ UNCHANGED <<tasks, tasks_readers, next_id, task_events, taskops, notTask>>

\* fail: publisher.task_failed
fail_publish(t) ==
    /\ tk[t].pc = "fail_publish"
    /\ task_events' = Append(task_events, TaskEvent("task.failed", tk[t].id, 0))
    /\ tk' = Return(t, "Unit")
    /\ UNCHANGED <<tasks, tasks_readers, task_state, next_id, taskops, notTask>>

\* TaskHandle::set_progress: self.state.set_progress(progress, message)
TaskHandle_set_progress(t, id, progress) ==
    /\ TaskCall(t)
    /\ id \in DOMAIN task_state
    /\ set_progress(id, progress, None)
    /\ tk' = [tk EXCEPT ![t] = [Enter(t, "set_progress", id, "progress_publish") EXCEPT
                                    !.arg = progress]]
    /\ UNCHANGED <<tasks, tasks_readers, next_id, task_events, notTask>>

\* set_progress: publisher.progress(id, progress as u64, 100, message)
progress_publish(t) ==
    /\ tk[t].pc = "progress_publish"
    /\ task_events' = Append(task_events,
            TaskEvent("task.progress", tk[t].id, Event_progress(tk[t].arg, 100, "")))
    /\ tk' = Return(t, "Unit")
    /\ UNCHANGED <<tasks, tasks_readers, task_state, next_id, taskops, notTask>>

\* TaskManager::cancel: tasks.read().get(id), NotFound for an id not there
TaskManager_cancel(t, id) ==
    /\ TaskCall(t)
    /\ ~tasks_write_locked
    /\ IF id \notin tasks
       THEN /\ tk' = [tk EXCEPT ![t] = [Enter(t, "cancel", id, "idle") EXCEPT !.res = "NotFound"]]
            /\ UNCHANGED tasks_readers
       ELSE /\ tk' = [tk EXCEPT ![t] = [Enter(t, "cancel", id, "cancel_token") EXCEPT
                                            !.pre = task_state[id].status]]
            /\ tasks_readers' = tasks_readers \cup {t}
    /\ UNCHANGED <<tasks, task_state, next_id, task_events, notTask>>

\* cancel: state.cancel_token.cancel()
cancel_token(t) ==
    /\ tk[t].pc = "cancel_token"
    /\ task_state' = [task_state EXCEPT ![tk[t].id].cancelled = TRUE]
    /\ tk' = [tk EXCEPT ![t].pc = "cancel_set_status"]
    /\ UNCHANGED <<tasks, tasks_readers, next_id, task_events, taskops, notTask>>

\* cancel: state.set_status(Cancelled)
cancel_set_status(t) ==
    /\ tk[t].pc = "cancel_set_status"
    /\ set_status(tk[t].id, "Cancelled")
    /\ tk' = [tk EXCEPT ![t].pc = "cancel_finish"]
    /\ UNCHANGED <<tasks, tasks_readers, next_id, task_events, taskops, notTask>>

\* cancel: info.write().finished_at = Some(now)
cancel_finish(t) ==
    /\ tk[t].pc = "cancel_finish"
    /\ task_state' = [task_state EXCEPT ![tk[t].id].finished_at = Some(clock)]
    /\ tk' = [tk EXCEPT ![t].pc = "cancel_publish"]
    /\ UNCHANGED <<tasks, tasks_readers, next_id, task_events, taskops, notTask>>

\* cancel: publisher().task_cancelled(id); Ok(()), which drops the read guard
cancel_publish(t) ==
    /\ tk[t].pc = "cancel_publish"
    /\ task_events' = Append(task_events, TaskEvent("task.cancelled", tk[t].id, 0))
    /\ tasks_readers' = tasks_readers \ {t}
    /\ tk' = Return(t, "Ok")
    /\ UNCHANGED <<tasks, task_state, next_id, taskops, notTask>>

\* the lookup and the state check that pause and resume share: NotFound,
\* InvalidState, or on to the status store with the read guard held
CheckedTransition(t, op, id, from, pc) ==
    /\ ~tasks_write_locked
    /\ IF id \notin tasks
       THEN /\ tk' = [tk EXCEPT ![t] = [Enter(t, op, id, "idle") EXCEPT !.res = "NotFound"]]
            /\ UNCHANGED tasks_readers
       ELSE IF task_state[id].status # from
       THEN /\ tk' = [tk EXCEPT ![t] = [Enter(t, op, id, "idle") EXCEPT
                                            !.res = "InvalidState",
                                            !.pre = task_state[id].status]]
            /\ UNCHANGED tasks_readers
       ELSE /\ tk' = [tk EXCEPT ![t] = [Enter(t, op, id, pc) EXCEPT !.pre = from]]
            /\ tasks_readers' = tasks_readers \cup {t}
    /\ UNCHANGED <<tasks, task_state, next_id, task_events, notTask>>

\* TaskManager::pause up to its state check
TaskManager_pause(t, id) ==
    /\ TaskCall(t)
    /\ CheckedTransition(t, "pause", id, "Running", "pause_set_status")

\* pause: state.set_status(Paused)
pause_set_status(t) ==
    /\ tk[t].pc = "pause_set_status"
    /\ set_status(tk[t].id, "Paused")
    /\ tk' = [tk EXCEPT ![t].pc = "pause_publish"]
    /\ UNCHANGED <<tasks, tasks_readers, next_id, task_events, taskops, notTask>>

\* pause: publish task.paused; Ok(())
pause_publish(t) ==
    /\ tk[t].pc = "pause_publish"
    /\ task_events' = Append(task_events, TaskEvent("task.paused", tk[t].id, 0))
    /\ tasks_readers' = tasks_readers \ {t}
    /\ tk' = Return(t, "Ok")
    /\ UNCHANGED <<tasks, task_state, next_id, taskops, notTask>>

\* TaskManager::resume up to its state check
TaskManager_resume(t, id) ==
    /\ TaskCall(t)
    /\ CheckedTransition(t, "resume", id, "Paused", "resume_set_status")

\* resume: state.set_status(Running)
resume_set_status(t) ==
    /\ tk[t].pc = "resume_set_status"
    /\ set_status(tk[t].id, "Running")
    /\ tk' = [tk EXCEPT ![t].pc = "resume_publish"]
    /\ UNCHANGED <<tasks, tasks_readers, next_id, task_events, taskops, notTask>>

\* resume: publish task.resumed; Ok(())
resume_publish(t) ==
    /\ tk[t].pc = "resume_publish"
    /\ task_events' = Append(task_events, TaskEvent("task.resumed", tk[t].id, 0))
    /\ tasks_readers' = tasks_readers \ {t}
    /\ tk' = Return(t, "Ok")
    /\ UNCHANGED <<tasks, task_state, next_id, taskops, notTask>>

\* remove with its state check left out
remove_allowed_always(status) == TRUE

\* remove: if !status.is_terminal() { return Err(InvalidState) }
remove_allowed(status) == is_terminal(status)

\* TaskManager::remove, all of it under the write lock of tasks
TaskManager_remove(t, id) ==
    /\ TaskCall(t)
    /\ tasks_readers = {}
    /\ ~tasks_write_locked
    /\ IF id \notin tasks
       THEN /\ tk' = [tk EXCEPT ![t] = [Enter(t, "remove", id, "idle") EXCEPT !.res = "NotFound"]]
            /\ UNCHANGED tasks
       ELSE IF ~remove_allowed(task_state[id].status)
       THEN /\ tk' = [tk EXCEPT ![t] = [Enter(t, "remove", id, "idle") EXCEPT
                                            !.res = "InvalidState"]]
            /\ UNCHANGED tasks
       ELSE /\ tk' = [tk EXCEPT ![t] = [Enter(t, "remove", id, "idle") EXCEPT !.res = "Ok"]]
            /\ tasks' = tasks \ {id}
    /\ UNCHANGED <<tasks_readers, task_state, next_id, task_events, notTask>>

\* TaskState::get_info: let mut info = self.info.read().clone()
info_clone(id) ==
    Some([status |-> "unread", progress |-> task_state[id].progress,
          finished_at |-> task_state[id].finished_at])

\* TaskHandle::info up to the clone of TaskInfo
TaskHandle_info(t, id) ==
    /\ TaskCall(t)
    /\ id \in DOMAIN task_state
    /\ tk' = [tk EXCEPT ![t] = [Enter(t, "info", id, "info_status") EXCEPT !.snap = info_clone(id)]]
    /\ UNCHANGED <<tasks, tasks_readers, task_state, next_id, task_events, notTask>>

\* TaskManager::get: None for an id not in the registry, else get_info under
\* the read guard of tasks
TaskManager_get(t, id) ==
    /\ TaskCall(t)
    /\ ~tasks_write_locked
    /\ IF id \notin tasks
       THEN /\ tk' = [tk EXCEPT ![t] = [Enter(t, "get", id, "idle") EXCEPT !.res = "None"]]
            /\ UNCHANGED tasks_readers
       ELSE /\ tk' = [tk EXCEPT ![t] = [Enter(t, "get", id, "info_status") EXCEPT
                                            !.snap = info_clone(id)]]
            /\ tasks_readers' = tasks_readers \cup {t}
    /\ UNCHANGED <<tasks, task_state, next_id, task_events, notTask>>

\* get_info: info.status = TaskStatus::from(self.status.load())
info_status(t) ==
    /\ tk[t].pc = "info_status"
    /\ tk' = [tk EXCEPT ![t].pc = "info_progress",
                        ![t].snap = Some([tk[t].snap[1] EXCEPT !.status = task_state[tk[t].id].status])]
    /\ UNCHANGED <<tasks, tasks_readers, task_state, next_id, task_events, taskops, notTask>>

\* get_info: info.progress = self.progress.load(); the snapshot is returned
info_progress(t) ==
    /\ tk[t].pc = "info_progress"
    /\ tk' = [tk EXCEPT ![t].pc = "idle", ![t].res = "Info",
                        ![t].snap = Some([tk[t].snap[1] EXCEPT !.progress = task_state[tk[t].id].progress])]
    /\ tasks_readers' = tasks_readers \ {t}
    /\ UNCHANGED <<tasks, task_state, next_id, task_events, taskops, notTask>>

TaskNext ==
    \E t \in TaskThreads :
        \/ TaskManager_create(t)
        \/ create_insert(t)
        \/ create_publish(t)
        \/ \E id \in TaskIds : TaskHandle_start(t, id)
        \/ start_started_at(t)
        \/ start_publish(t)
        \/ \E id \in TaskIds : TaskHandle_complete(t, id)
        \/ complete_set_progress(t)
        \/ complete_finish(t)
        \/ complete_publish(t)
        \/ \E id \in TaskIds : TaskHandle_fail(t, id)
        \/ fail_finish(t)
        \/ fail_publish(t)
        \/ \E id \in TaskIds, p \in ProgressInputs : TaskHandle_set_progress(t, id, p)
        \/ progress_publish(t)
        \/ \E id \in AnyId : TaskManager_cancel(t, id)
        \/ cancel_token(t)
        \/ cancel_set_status(t)
        \/ cancel_finish(t)
        \/ cancel_publish(t)
        \/ \E id \in AnyId : TaskManager_pause(t, id)
        \/ pause_set_status(t)
        \/ pause_publish(t)
        \/ \E id \in AnyId : TaskManager_resume(t, id)
        \/ resume_set_status(t)
        \/ resume_publish(t)
        \/ \E id \in AnyId : TaskManager_remove(t, id)
        \/ \E id \in TaskIds : TaskHandle_info(t, id)
        \/ \E id \in AnyId : TaskManager_get(t, id)
        \/ info_status(t)
        \/ info_progress(t)

(***************************************************************************)
(* Claims about the task registry                                          *)
(***************************************************************************)

\* C2: once the status of a task is Completed, Failed or Cancelled, no step
\* of any operation, from any thread, changes it again.
C2_TerminalStatusNeverChanges ==
    [][\A id \in DOMAIN task_state :
            is_terminal(task_state[id].status) =>
                task_state'[id].status = task_state[id].status]_vars

\* the number of events of one type about one task
RECURSIVE CountEvents(_, _, _)
CountEvents(log, ty, id) ==
    IF log = <<>> THEN 0
    ELSE (IF Head(log).event_type = ty /\ Head(log).resource_id = id THEN 1 ELSE 0)
         + CountEvents(Tail(log), ty, id)

\* C10: when cancel(id) returns Ok for a task that was not terminal, the
\* token of the task is set, its status is Cancelled, finished_at is set and
\* exactly one task.cancelled event about id has been published; a token once
\* set stays set; cancel of an unknown id returns NotFound, changes no task
\* and publishes nothing.
C10_CancelPostconditions ==
    [][/\ \A t \in TaskThreads :
            (tk[t].pc = "cancel_publish" /\ tk'[t].pc = "idle" /\ ~is_terminal(tk[t].pre)) =>
                /\ task_state'[tk[t].id].cancelled
                /\ task_state'[tk[t].id].status = "Cancelled"
                /\ task_state'[tk[t].id].finished_at # None
                /\ CountEvents(task_events', "task.cancelled", tk[t].id) = 1
       /\ \A id \in DOMAIN task_state : task_state[id].cancelled => task_state'[id].cancelled
       /\ \A t \in TaskThreads :
            (tk[t].pc = "idle" /\ tk'[t] # tk[t] /\ tk'[t].op = "cancel"
                /\ tk'[t].id \notin tasks) =>
                /\ tk'[t].res = "NotFound"
                /\ UNCHANGED <<tasks, task_state, task_events>>]_vars

\* C11: every snapshot that info() or get() returns, also one taken while
\* another thread is inside complete, fail or cancel, has finished_at set when
\* its status is terminal; and a task whose status was never terminal has
\* finished_at = None.
C11_TerminalSnapshotHasFinishedAt ==
    /\ \A t \in TaskThreads :
            (tk[t].res = "Info" /\ is_terminal(tk[t].snap[1].status)) =>
                tk[t].snap[1].finished_at # None
    /\ \A id \in DOMAIN task_state :
            ~task_state[id].ever_terminal => task_state[id].finished_at = None

\* thread t enters a call of op in this step
Calls(t, op) == tk[t].pc = "idle" /\ tk'[t] # tk[t] /\ tk'[t].op = op

\* the call that t enters fails with res and changes nothing
Refused(t, res) ==
    /\ tk'[t].res = res
    /\ tk'[t].pc = "idle"
    /\ UNCHANGED <<tasks, task_state, task_events>>

\* C14: for every u8 p, set_progress(p, _) leaves min(p, 100) in the progress
\* cell, which is what progress() loads; and in every state the progress of a
\* task, in its cell and in every snapshot of it, lies in 0..100.
C14_ProgressIsClamped ==
    /\ [](\A p \in 0..255 : clamp(p) = IF p <= 100 THEN p ELSE 100)
    /\ [](/\ \A id \in DOMAIN task_state : task_state[id].progress \in 0..100
          /\ \A t \in TaskThreads :
                tk[t].snap # None => tk[t].snap[1].progress \in 0..100)
    /\ [][\A t \in TaskThreads, id \in TaskIds, p \in ProgressInputs :
            TaskHandle_set_progress(t, id, p)
                => task_state'[id].progress = (IF p <= 100 THEN p ELSE 100)]_vars

\* set_progress(150) has returned, the cell holds 100 and a snapshot taken
\* after it shows 100
C14_Witness ==
    \E t, u \in TaskThreads :
        /\ t # u
        /\ tk[t].op = "set_progress" /\ tk[t].arg = 150 /\ tk[t].pc = "idle"
        /\ task_state[tk[t].id].progress = 100
        /\ tk[u].res = "Info" /\ tk[u].pc = "idle" /\ tk[u].id = tk[t].id
        /\ tk[u].snap # None /\ tk[u].snap[1].progress = 100

\* C12: pause goes through only from Running (the status becomes Paused, one
\* task.paused event is published), resume only from Paused (Running, one
\* task.resumed event), remove only from a terminal status (the id leaves the
\* registry for good and get returns None for it); from any other status each
\* returns InvalidState, for an unknown id NotFound, and then no task, the
\* registry and the events are unchanged.
C12_PauseResumeRemoveGuards ==
    [][\A t \in TaskThreads :
        LET id == tk'[t].id
            known == id \in tasks
            st == task_state[id].status
        IN  /\ Calls(t, "pause") =>
                IF ~known THEN Refused(t, "NotFound")
                ELSE IF st # "Running" THEN Refused(t, "InvalidState")
                ELSE tk'[t].pc = "pause_set_status" /\ UNCHANGED <<tasks, task_state, task_events>>
            /\ Calls(t, "resume") =>
                IF ~known THEN Refused(t, "NotFound")
                ELSE IF st # "Paused" THEN Refused(t, "InvalidState")
                ELSE tk'[t].pc = "resume_set_status" /\ UNCHANGED <<tasks, task_state, task_events>>
            /\ Calls(t, "remove") =>
                IF ~known THEN Refused(t, "NotFound")
                ELSE IF ~is_terminal(st) THEN Refused(t, "InvalidState")
                ELSE /\ tk'[t].res = "Ok"
                     /\ tasks' = tasks \ {id}
                     /\ UNCHANGED <<task_state, task_events>>
            /\ (Calls(t, "get") /\ ~known) => tk'[t].res = "None"
            /\ (tk[t].pc = "pause_set_status" /\ tk'[t].pc # tk[t].pc) =>
                    task_state'[tk[t].id].status = "Paused"
            /\ (tk[t].pc = "resume_set_status" /\ tk'[t].pc # tk[t].pc) =>
                    task_state'[tk[t].id].status = "Running"
            /\ (tk[t].pc = "pause_publish" /\ tk'[t].pc # tk[t].pc) =>
                    /\ tk'[t].res = "Ok"
                    /\ task_events' = Append(task_events, TaskEvent("task.paused", tk[t].id, 0))
            /\ (tk[t].pc = "resume_publish" /\ tk'[t].pc # tk[t].pc) =>
                    /\ tk'[t].res = "Ok"
                    /\ task_events' = Append(task_events, TaskEvent("task.resumed", tk[t].id, 0))
            /\ \A i \in DOMAIN task_state : i \notin tasks => i \notin tasks']_vars

\* a task was started, paused and resumed: it runs again and there is one
\* task.paused and one task.resumed event about it
C12_Witness ==
    \E t \in TaskThreads :
        /\ tk[t].op = "resume"
        /\ tk[t].res = "Ok"
        /\ task_state[tk[t].id].status = "Running"
        /\ CountEvents(task_events, "task.paused", tk[t].id) = 1
        /\ CountEvents(task_events, "task.resumed", tk[t].id) = 1

(***************************************************************************)
(* socket_server.rs: SocketServer::run and the thread it spawns for each   *)
(* accepted connection.  A client is a peer process: it connects, writes   *)
(* any bytes it likes and closes.  serde_json is modelled by a small codec:*)
(* a Message is encoded as the 4 bytes '{', type code, payload, '}', and   *)
(* only such byte strings decode.                                          *)
(***************************************************************************)

MaxClients == 1

Clients == 1..MaxClients

\* bound on the number of writes of all clients together
MaxWrites == 4

RECURSIVE SumWrites(_)
SumWrites(cs) ==
    IF cs = {} THEN 0
    ELSE LET c == CHOOSE x \in cs : TRUE IN conn[c].writes + SumWrites(cs \ {c})

MessageTypes == <<"text", "binary", "request", "response", "error", "ping", "pong">>

TypeCode(ty) == CHOOSE k \in 1..Len(MessageTypes) : MessageTypes[k] = ty

Message(ty, payload) == [msg_type |-> ty, payload |-> payload]

\* Message::response and Message::error(-1, ..), payloads abridged to one byte
Message_response == Message("response", 0)

Message_error == Message("error", 1)

\* serde_json::to_vec(msg)
to_vec(msg) == Bytes(<<123, TypeCode(msg.msg_type), msg.payload, 125>>)

\* serde_json::from_slice(buffer): the Message, or None when the bytes are not one
from_slice(b) ==
    IF /\ RLen(b) = 4
       /\ RByte(b, 1) = 123
       /\ RByte(b, 4) = 125
       /\ RByte(b, 2) \in 1..Len(MessageTypes)
    THEN Some(Message(MessageTypes[RByte(b, 2)], RByte(b, 3)))
    ELSE None

\* a length prefix followed by the payload
Frame(payload) == RCat(to_le_bytes(RLen(payload)), payload)

\* what a client may write in one write call
ClientWrites ==
    { Frame(to_vec(Message("text", 7))),
      Frame(to_vec(Message("request", 8))),
      Frame(Run(0, MAX_MESSAGE_SIZE)),
      Bytes(<<1, 0, 0, 1>>) }

HandlerResults == {"Some", "None", "Err"}

\* a loop that answers a handler error like a response
reply_to_as_response(msg, result) == Message("response", msg.payload)

\* what the loop sends for a message: the handler's response, which here
\* carries the payload of the message it answers, or Message::error(-1, ..)
\* for a handler error
reply_to(msg, result) ==
    IF result = "Some" THEN Message("response", msg.payload) ELSE Message_error

\* a send that puts its frame in front of what the stream already holds
Connection_send_first(tx, msg) == RCat(Frame(to_vec(msg)), tx)

\* Connection::send: the length prefix and the JSON are written to the stream
Connection_send(tx, msg) == RCat(tx, Frame(to_vec(msg)))

RecvOk(msg) == [op |-> "recv", kind |-> "Ok", needed |-> 0, got |-> 0, data |-> msg]

RecvErr(kind) == [op |-> "recv", kind |-> kind, needed |-> 0, got |-> 0, data |-> <<>>]

NoConnection ==
    [pc |-> "unconnected", id |-> 0,
     rx |-> <<>>,          \* bytes the client wrote and the server has not read
     closed |-> FALSE,     \* the client closed its socket
     writes |-> 0,         \* number of writes of the client
     read |-> 0,           \* number of bytes the server read from the stream
     need |-> 0,           \* the length the header in progress declared
     buffer |-> <<>>,      \* Connection.buffer
     res |-> NoResult,     \* what the last Connection::recv returned
     msg |-> None,         \* the message on its way to on_message
     handled |-> <<>>,     \* the messages on_message was called with
     results |-> <<>>,     \* history: what on_message returned for each of them
     tx |-> <<>>,          \* bytes the server wrote to the client
     disconnects |-> 0,    \* number of on_disconnect calls
     after_shutdown |-> 0, \* history: on_message calls made with the flag set
     send_failed |-> FALSE] \* history: a conn.send of the loop returned an error

ServerInit ==
    /\ listener = <<>>
    /\ server_next_id = 1
    /\ run = [pc |-> "incoming", c |-> 0]
    /\ conn = [c \in Clients |-> NoConnection]

ServerIdle == ServerInit

\* LocalSocketStream::connect by a client
client_connect(c) ==
    /\ conn[c].pc = "unconnected"
    /\ conn' = [conn EXCEPT ![c].pc = "backlog"]
    /\ listener' = Append(listener, c)
    /\ UNCHANGED <<server_next_id, run, shutdown, notServer>>

\* a write by a connected client
client_write(c, bytes) ==
    /\ conn[c].pc # "unconnected"
    /\ ~conn[c].closed
    /\ SumWrites(Clients) < MaxWrites
    /\ conn' = [conn EXCEPT ![c].rx = RCat(@, bytes), ![c].writes = @ + 1]
    /\ UNCHANGED <<listener, server_next_id, run, shutdown, notServer>>

\* the client closes its socket
client_close(c) ==
    /\ conn[c].pc # "unconnected"
    /\ ~conn[c].closed
    /\ conn' = [conn EXCEPT ![c].closed = TRUE]
    /\ UNCHANGED <<listener, server_next_id, run, shutdown, notServer>>

\* SocketServer::shutdown
SocketServer_shutdown ==
    /\ ~shutdown
    /\ shutdown' = TRUE
    /\ UNCHANGED <<serverVars, notServer>>

\* incoming(): None once the flag is set, which ends run with Ok(())
run_incoming ==
    /\ run.pc = "incoming"
    /\ run' = [run EXCEPT !.pc = IF shutdown THEN "returned" ELSE "accept"]
    /\ UNCHANGED <<listener, server_next_id, conn, shutdown, notServer>>

\* incoming(): listener.accept() returns a stream, next_id.fetch_add(1)
run_accept ==
    /\ run.pc = "accept"
    /\ listener # <<>>
    /\ listener' = Tail(listener)
    /\ server_next_id' = server_next_id + 1
    /\ conn' = [conn EXCEPT ![Head(listener)].pc = "accepted",
                            ![Head(listener)].id = server_next_id]
    /\ run' = [pc |-> "dispatch", c |-> Head(listener)]
    /\ UNCHANGED <<shutdown, notServer>>

\* run: break when the flag is set (the connection is dropped), else spawn
\* the thread of the connection
run_dispatch ==
    /\ run.pc = "dispatch"
    /\ IF shutdown
       THEN /\ run' = [pc |-> "returned", c |-> 0]
            /\ conn' = [conn EXCEPT ![run.c].pc = "dropped"]
       ELSE /\ run' = [pc |-> "incoming", c |-> 0]
            /\ conn' = [conn EXCEPT ![run.c].pc = "on_connect"]
    /\ UNCHANGED <<listener, server_next_id, shutdown, notServer>>

\* handler.on_connect: an error ends the thread at once
on_connect(c, ok) ==
    /\ conn[c].pc = "on_connect"
    /\ conn' = [conn EXCEPT ![c].pc = IF ok THEN "loop" ELSE "done"]
    /\ UNCHANGED <<listener, server_next_id, run, shutdown, notServer>>

\* a loop that never looks at the flag
loop_check_never(c) ==
    /\ conn[c].pc = "loop"
    /\ conn' = [conn EXCEPT ![c].pc = "recv_header"]
    /\ UNCHANGED <<listener, server_next_id, run, shutdown, notServer>>

\* loop { if shutdown.is_shutdown() { break } .. }
loop_check(c) ==
    /\ conn[c].pc = "loop"
    /\ conn' = [conn EXCEPT ![c].pc = IF shutdown THEN "disconnect" ELSE "recv_header"]
    /\ UNCHANGED <<listener, server_next_id, run, shutdown, notServer>>

\* Connection::recv with the length check left out
Connection_recv_unchecked(len) == FALSE

\* Connection::recv: if len > 16 * 1024 * 1024
Connection_recv_too_big(len) == len > 16 * 1024 * 1024

\* Connection::recv up to the length check: read_exact of the prefix blocks
\* until 4 bytes are there and fails with UnexpectedEof when the client closed
\* before; every error of recv breaks the loop
recv_header(c) ==
    /\ conn[c].pc = "recv_header"
    /\ IF RLen(conn[c].rx) >= 4
       THEN LET len == from_le_bytes(RTake(conn[c].rx, 4))
            IN  IF Connection_recv_too_big(len)
                THEN conn' = [conn EXCEPT
                        ![c].pc = "disconnect",
                        ![c].rx = RDrop(@, 4),
                        ![c].read = @ + 4,
                        ![c].res = BufferTooSmall("recv", len, 16 * 1024 * 1024)]
                ELSE conn' = [conn EXCEPT
                        ![c].pc = "recv_data",
                        ![c].rx = RDrop(@, 4),
                        ![c].read = @ + 4,
                        ![c].need = len,
                        ![c].buffer = Run(0, len)]
       ELSE /\ conn[c].closed
            /\ conn' = [conn EXCEPT
                    ![c].pc = "disconnect",
                    ![c].rx = <<>>,
                    ![c].read = @ + RLen(conn[c].rx),
                    ![c].res = RecvErr("UnexpectedEof")]
    /\ UNCHANGED <<listener, server_next_id, run, shutdown, notServer>>

\* Connection::recv from read_exact(&mut self.buffer) on: the payload, then
\* serde_json::from_slice; Ok(msg) goes to on_message, every error breaks
recv_data(c) ==
    /\ conn[c].pc = "recv_data"
    /\ IF RLen(conn[c].rx) >= conn[c].need
       THEN LET data == RTake(conn[c].rx, conn[c].need)
                msg == from_slice(data)
            IN  conn' = [conn EXCEPT
                    ![c].pc = IF msg = None THEN "disconnect" ELSE "on_message",
                    ![c].rx = RDrop(@, conn[c].need),
                    ![c].read = @ + conn[c].need,
                    ![c].need = 0,
                    ![c].buffer = data,
                    ![c].msg = msg,
                    ![c].res = IF msg = None THEN RecvErr("Deserialization")
                               ELSE RecvOk(msg[1])]
       ELSE /\ conn[c].closed
            /\ conn' = [conn EXCEPT
                    ![c].pc = "disconnect",
                    ![c].rx = <<>>,
                    ![c].read = @ + RLen(conn[c].rx),
                    ![c].need = 0,
                    ![c].buffer = RCat(conn[c].rx, Run(0, conn[c].need - RLen(conn[c].rx))),
                    ![c].res = RecvErr("UnexpectedEof")]
    /\ UNCHANGED <<listener, server_next_id, run, shutdown, notServer>>

\* handler.on_message and what the loop does with its result: a response is
\* sent, and a failed send breaks the loop; a handler error is answered with
\* Message::error(-1, ..), whose send result is ignored.  A send to a client
\* that closed may fail or not.
on_message(c, result, sendok) ==
    /\ conn[c].pc = "on_message"
    /\ sendok \/ conn[c].closed
    /\ sendok \/ result # "None"
    /\ LET reply == reply_to(conn[c].msg[1], result)
       IN  conn' = [conn EXCEPT
                ![c].handled = Append(@, conn[c].msg[1]),
                ![c].results = Append(@, result),
                ![c].send_failed = @ \/ (result # "None" /\ ~sendok),
                ![c].after_shutdown = @ + (IF shutdown THEN 1 ELSE 0),
                ![c].msg = None,
                ![c].tx = IF result # "None" /\ sendok THEN Connection_send(@, reply) ELSE @,
                ![c].pc = IF result = "Some" /\ ~sendok THEN "disconnect" ELSE "loop"]
    /\ UNCHANGED <<listener, server_next_id, run, shutdown, notServer>>

\* handler.on_disconnect(conn.id()) after the loop
on_disconnect(c) ==
    /\ conn[c].pc = "disconnect"
    /\ conn' = [conn EXCEPT ![c].pc = "done", ![c].disconnects = @ + 1]
    /\ UNCHANGED <<listener, server_next_id, run, shutdown, notServer>>

ServerNext ==
    \/ \E c \in Clients : client_connect(c)
    \/ \E c \in Clients, bytes \in ClientWrites : client_write(c, bytes)
    \/ \E c \in Clients : client_close(c)
    \/ SocketServer_shutdown
    \/ run_incoming
    \/ run_accept
    \/ run_dispatch
    \/ \E c \in Clients, ok \in BOOLEAN : on_connect(c, ok)
    \/ \E c \in Clients : loop_check(c)
    \/ \E c \in Clients : recv_header(c)
    \/ \E c \in Clients : recv_data(c)
    \/ \E c \in Clients, result \in HandlerResults, sendok \in BOOLEAN : on_message(c, result, sendok)
    \/ \E c \in Clients : on_disconnect(c)

(***************************************************************************)
(* Claims about the socket server                                          *)
(***************************************************************************)

\* the connection c ended on a frame that recv refused
EndedOnBadFrame(c) == conn[c].res.kind \in {"BufferTooSmall", "Deserialization"}

\* C8: a recv that reads a header declaring more than 16 MiB returns
\* BufferTooSmall{needed: declared length, got: 16 MiB} having read the 4
\* header bytes and nothing else, the buffer untouched; and once recv refused
\* a frame (its length, or a payload that is no Message) the thread of the
\* connection calls no handler but on_disconnect and never reads from the
\* stream again.
C8_BadFrameEndsConnection ==
    /\ [][\A c \in Clients :
            (/\ conn[c].pc = "recv_header"
             /\ conn'[c].pc # "recv_header"
             /\ RLen(conn[c].rx) >= 4
             /\ from_le_bytes(RTake(conn[c].rx, 4)) > 16777216) =>
                /\ conn'[c].res = BufferTooSmall("recv", from_le_bytes(RTake(conn[c].rx, 4)), 16777216)
                /\ conn'[c].read = conn[c].read + 4
                /\ conn'[c].rx = RDrop(conn[c].rx, 4)
                /\ conn'[c].buffer = conn[c].buffer
                /\ conn'[c].pc = "disconnect"]_vars
    /\ [][\A c \in Clients :
            EndedOnBadFrame(c) =>
                /\ conn'[c].read = conn[c].read
                /\ conn'[c].handled = conn[c].handled
                /\ conn'[c].tx = conn[c].tx
                /\ conn'[c].res = conn[c].res
                /\ conn'[c].pc \in {"disconnect", "done"}
                /\ conn'[c].disconnects = IF conn[c].pc = "disconnect" /\ conn'[c].pc = "done"
                                          THEN 1 ELSE conn[c].disconnects]_vars

\* a connection handled a message, was then ended by a header declaring
\* 16 MiB + 1, and a whole valid frame behind that header stays unread
C8_Witness ==
    \E c \in Clients :
        /\ conn[c].res.kind = "BufferTooSmall"
        /\ conn[c].res.needed = 16777217
        /\ conn[c].pc = "done"
        /\ conn[c].disconnects = 1
        /\ conn[c].rx = Frame(to_vec(Message("text", 7)))

\* C15: under DropNewest the publisher's loop over the subscribers can always
\* take its next step; at a matching subscriber that holds subscriber_buffer
\* unread events the event is dropped for that subscriber alone (its queue is
\* as before, the event has been appended to history, the loop goes on to
\* the next subscriber), and at a matching subscriber with room it is queued;
\* no queue ever holds more than subscriber_buffer events.
C15_DropNewestNeverBlocks ==
    /\ [](\A s \in 1..Len(subscribers) :
            Len(subscribers[s].queue) <= config.subscriber_buffer)
    /\ [](config.slow_consumer = "DropNewest" =>
            \A p \in Publishers :
                (pub[p].pc = "loop" /\ pub[p].i <= Len(subscribers))
                    => ENABLED publish_deliver(p))
    /\ [][config.slow_consumer = "DropNewest" =>
            \A p \in Publishers :
                publish_deliver(p) =>
                    LET i == pub[p].i
                        e == pub[p].event
                        q == subscribers[i].queue
                    IN  /\ pub'[p].i = i + 1
                        /\ e.id \in {publog[k] : k \in 1..Len(publog)}
                        /\ \A j \in 1..Len(subscribers) :
                              j # i => subscribers'[j] = subscribers[j]
                        /\ subscribers'[i].queue =
                              IF matches(subscribers[i].filter, e)
                                 /\ Len(q) < config.subscriber_buffer
                              THEN Append(q, e)
                              ELSE q]_vars

\* DropNewest with a buffer of one: event 1 sits unread in the channel of a
\* subscriber that has read nothing yet, and the publisher of event 2, which
\* the subscriber's filter matches too, has gone past that subscriber
C15_Witness ==
    /\ config.slow_consumer = "DropNewest"
    /\ config.subscriber_buffer = 1
    /\ publog = <<1, 2>>
    /\ \E p \in Publishers, s \in 1..Len(subscribers) :
          /\ pub[p].pc = "loop"
          /\ pub[p].event.id = 2
          /\ pub[p].i = s + 1
          /\ subscribers[s].filter = EmptyFilter
          /\ Len(subscribers[s].queue) = 1
          /\ subscribers[s].queue[1].id = 1
          /\ delivered[s] = <<>>

\* the payloads of the frames of a byte stream, in order
RECURSIVE Frames(_)
Frames(b) ==
    IF RLen(b) < 4 THEN <<>>
    ELSE LET len == from_le_bytes(RTake(b, 4))
         IN  <<RTake(RDrop(b, 4), len)>> \o Frames(RDrop(b, 4 + len))

\* the payloads of the response messages among the frames of a byte stream
ResponsePayloads(b) ==
    LET ms == [k \in 1..Len(Frames(b)) |-> from_slice(Frames(b)[k])]
        rs == SelectSeq(ms, LAMBDA m : m # None /\ m[1].msg_type = "response")
    IN  [k \in 1..Len(rs) |-> rs[k][1].payload]

RECURSIVE IsSubseq(_, _)
IsSubseq(s, t) ==
    IF s = <<>> THEN TRUE
    ELSE IF t = <<>> THEN FALSE
    ELSE IF Head(s) = Head(t) THEN IsSubseq(Tail(s), Tail(t))
    ELSE IsSubseq(s, Tail(t))

\* C19: on a connection served by run, the stream is read only while no
\* message waits for on_message; on_message gets the message the last recv
\* returned and its reply, if any, is appended to the stream in the same
\* turn of the loop, before the next read; nothing else writes to the
\* stream; so the responses on the stream answer the messages in the order
\* on_message got them.
C19_PerConnectionFifo ==
    /\ [](\A c \in Clients :
            IsSubseq(ResponsePayloads(conn[c].tx),
                     [k \in 1..Len(conn[c].handled) |-> conn[c].handled[k].payload]))
    /\ [][\A c \in Clients :
            /\ conn'[c].read # conn[c].read =>
                  /\ conn[c].msg = None
                  /\ conn'[c].handled = conn[c].handled
                  /\ conn'[c].tx = conn[c].tx
            /\ conn'[c].handled # conn[c].handled =>
                  /\ conn[c].msg # None
                  /\ conn[c].res = RecvOk(conn[c].msg[1])
                  /\ conn'[c].handled = Append(conn[c].handled, conn[c].msg[1])
                  /\ conn'[c].msg = None
                  /\ conn'[c].read = conn[c].read
                  /\ \/ conn'[c].tx = conn[c].tx
                     \/ \E r \in {"Some", "Err"} :
                          conn'[c].tx = RCat(conn[c].tx,
                                             Frame(to_vec(reply_to(conn[c].msg[1], r))))
            /\ conn'[c].tx # conn[c].tx => conn'[c].handled # conn[c].handled]_vars

\* a connection got two different messages and answered both: the two
\* responses are on the stream in the order of the messages
C19_Witness ==
    \E c \in Clients :
        /\ conn[c].handled = <<Message("request", 8), Message("text", 7)>>
        /\ conn[c].tx = RCat(Frame(to_vec(Message("response", 8))),
                             Frame(to_vec(Message("response", 7))))

(***************************************************************************)
(* task_manager.rs: CancellationToken on its own                           *)
(***************************************************************************)

MaxTokens == 4

TokenInit ==
    /\ token_cells = <<>>
    /\ tokens = <<>>
    /\ token_roots = {}

TokenIdle == TokenInit

\* CancellationToken::new: a token with a fresh cell
CancellationToken_new ==
    /\ Len(tokens) < MaxTokens
    /\ token_cells' = Append(token_cells, FALSE)
    /\ tokens' = Append(tokens, [cell |-> Len(token_cells) + 1, root |-> Len(tokens) + 1])
    /\ UNCHANGED <<token_roots, notToken>>

\* the derived Clone: Arc::clone of the cell
CancellationToken_clone(h) ==
    /\ Len(tokens) < MaxTokens
    /\ tokens' = Append(tokens, tokens[h])
    /\ UNCHANGED <<token_cells, token_roots, notToken>>

\* child() with a cell of its own, as a token hierarchy would start out
child_own_cell(h) == Len(token_cells) + 1

\* child(): Arc::clone(&self.cancelled)
child_cell(h) == tokens[h].cell

\* CancellationToken::child
CancellationToken_child(h) ==
    /\ Len(tokens) < MaxTokens
    /\ tokens' = Append(tokens, [cell |-> child_cell(h), root |-> tokens[h].root])
    /\ token_cells' = IF child_cell(h) > Len(token_cells) THEN Append(token_cells, FALSE)
                       ELSE token_cells
    /\ UNCHANGED <<token_roots, notToken>>

\* CancellationToken::cancel: self.cancelled.store(true)
CancellationToken_cancel(h) ==
    /\ token_cells' = [token_cells EXCEPT ![tokens[h].cell] = TRUE]
    /\ token_roots' = token_roots \cup {tokens[h].root}
    /\ UNCHANGED <<tokens, notToken>>

\* CancellationToken::is_cancelled
is_cancelled(h) == token_cells[tokens[h].cell]

TokenNext ==
    \/ CancellationToken_new
    \/ \E h \in 1..Len(tokens) : CancellationToken_clone(h)
    \/ \E h \in 1..Len(tokens) : CancellationToken_child(h)
    \/ \E h \in 1..Len(tokens) : CancellationToken_cancel(h)

\* C13: is_cancelled() of a token is false until the first cancel() on it or
\* on a clone or child of its family and true for every member of the family
\* from then on; the latch is never reset and a further cancel() changes
\* nothing.
C13_TokenIsSharedLatch ==
    /\ [](\A h \in 1..Len(tokens) : is_cancelled(h) <=> tokens[h].root \in token_roots)
    /\ [][/\ \A h \in 1..Len(tokens) : is_cancelled(h) => is_cancelled(h)'
          /\ \A h \in 1..Len(tokens) :
                (is_cancelled(h) /\ CancellationToken_cancel(h))
                    => token_cells' = token_cells]_vars

\* a parent was cancelled through its child while a token of another family
\* stays clear
C13_Witness ==
    \E p, c, o \in 1..Len(tokens) :
        /\ p < c
        /\ tokens[c].root = p
        /\ tokens[o].root = o
        /\ o # p
        /\ is_cancelled(p)
        /\ is_cancelled(c)
        /\ ~is_cancelled(o)

(***************************************************************************)
(* thread_channel.rs: ThreadSender and ThreadReceiver over one crossbeam   *)
(* channel and one ShutdownState; graceful.rs: the calls of a              *)
(* GracefulIpcChannel that shares that ShutdownState.  Both halves of the  *)
(* crossbeam channel stay alive, so it is never disconnected.              *)
(***************************************************************************)

ThreadCallers == {"a", "b"}

MaxCapacity == 2

MaxThreadOps == 4

SendOps == {"send", "try_send", "send_timeout"}

RecvOps == {"recv", "try_recv", "recv_timeout"}

GracefulOps == {"send_bytes", "recv_bytes", "send_typed", "recv_typed"}

\* sd: shutdown had been signalled when the call began (history)
IdleThreadCaller ==
    [pc |-> "idle", op |-> "none", msg |-> 0, res |-> "none", got |-> 0, sd |-> FALSE]

\* ThreadChannel::unbounded() / ThreadChannel::bounded(capacity)
ThreadInit ==
    /\ thread_inner = <<>>
    /\ thread_capacity \in {None} \cup {Some(n) : n \in 1..MaxCapacity}
    /\ thc = [t \in ThreadCallers |-> IdleThreadCaller]
    /\ thread_sent = <<>>
    /\ thread_rcvd = <<>>
    /\ thread_ops = 0
    /\ inner_io = 0

ThreadIdle ==
    /\ thread_inner = <<>>
    /\ thread_capacity = None
    /\ thc = [t \in ThreadCallers |-> IdleThreadCaller]
    /\ thread_sent = <<>>
    /\ thread_rcvd = <<>>
    /\ thread_ops = 0
    /\ inner_io = 0

\* a call begins; the element a send carries is the number of the call
ThreadCall(t, op, pc) ==
    /\ thread_ops < MaxThreadOps
    /\ thread_ops' = thread_ops + 1
    /\ thc' = [thc EXCEPT ![t] = [IdleThreadCaller EXCEPT
                                    !.pc = pc, !.op = op, !.msg = thread_ops + 1,
                                    !.sd = shutdown]]
    /\ UNCHANGED <<thread_inner, thread_capacity, thread_sent, thread_rcvd, inner_io,
                   shutdown, pending_count, notThread>>

ThreadReturn(t, res) == [thc EXCEPT ![t].pc = "idle", ![t].res = res]

\* a sender that does not look at the ShutdownState
is_shutdown_never == FALSE

\* ShutdownState::is_shutdown
is_shutdown == shutdown

\* a channel that always has room
inner_is_full_never == FALSE

\* crossbeam: the bounded channel holds capacity elements
inner_is_full ==
    /\ thread_capacity # None
    /\ Len(thread_inner) >= thread_capacity[1]

\* crossbeam: the element goes to the back of the queue
enqueue(t) ==
    /\ thread_inner' = Append(thread_inner, thc[t].msg)
    /\ thread_sent' = Append(thread_sent, thc[t].msg)
    /\ thc' = ThreadReturn(t, "Ok")
    /\ UNCHANGED thread_rcvd

\* crossbeam: the element at the front of the queue is taken
dequeue(t) ==
    /\ thread_inner' = Tail(thread_inner)
    /\ thread_rcvd' = Append(thread_rcvd, Head(thread_inner))
    /\ thc' = [ThreadReturn(t, "Ok") EXCEPT ![t].got = Head(thread_inner)]
    /\ UNCHANGED thread_sent

\* the call fails: nothing is queued or taken
fails(t, res) ==
    /\ thc' = ThreadReturn(t, res)
    /\ UNCHANGED <<thread_inner, thread_sent, thread_rcvd>>

\* ThreadSender::shutdown / ThreadReceiver::shutdown / GracefulChannel::shutdown
ThreadSender_shutdown ==
    /\ shutdown' = TRUE
    /\ UNCHANGED <<threadVars, pending_count, notThread>>

ThreadSender_send(t) ==
    /\ thc[t].pc = "idle"
    /\ ThreadCall(t, "send", "check")

ThreadSender_try_send(t) ==
    /\ thc[t].pc = "idle"
    /\ ThreadCall(t, "try_send", "check")

ThreadSender_send_timeout(t) ==
    /\ thc[t].pc = "idle"
    /\ ThreadCall(t, "send_timeout", "check")

\* send, try_send, send_timeout: if self.shutdown.is_shutdown() { return Err(Closed) }
send_check(t) ==
    /\ thc[t].pc = "check"
    /\ thc[t].op \in SendOps
    /\ IF is_shutdown
       THEN thc' = ThreadReturn(t, "Closed")
       ELSE thc' = [thc EXCEPT ![t].pc = "inner"]
    /\ UNCHANGED <<thread_inner, thread_capacity, thread_sent, thread_rcvd, thread_ops,
                   inner_io, shutdown, pending_count, notThread>>

\* send: self.inner.send(msg), which blocks while the channel is full
inner_send(t) ==
    /\ thc[t].pc = "inner"
    /\ thc[t].op = "send"
    /\ ~inner_is_full
    /\ enqueue(t)
    /\ UNCHANGED <<thread_capacity, thread_ops, inner_io, shutdown, pending_count, notThread>>

\* try_send: self.inner.try_send(msg), Full => WouldBlock
inner_try_send(t) ==
    /\ thc[t].pc = "inner"
    /\ thc[t].op = "try_send"
    /\ IF inner_is_full THEN fails(t, "WouldBlock") ELSE enqueue(t)
    /\ UNCHANGED <<thread_capacity, thread_ops, inner_io, shutdown, pending_count, notThread>>

\* send_timeout: self.inner.send_timeout(msg, timeout), Timeout if still full
inner_send_timeout(t) ==
    /\ thc[t].pc = "inner"
    /\ thc[t].op = "send_timeout"
    /\ IF inner_is_full THEN fails(t, "Timeout") ELSE enqueue(t)
    /\ UNCHANGED <<thread_capacity, thread_ops, inner_io, shutdown, pending_count, notThread>>

ThreadReceiver_recv(t) ==
    /\ thc[t].pc = "idle"
    /\ ThreadCall(t, "recv", "check")

\* try_recv has no test of the ShutdownState
ThreadReceiver_try_recv(t) ==
    /\ thc[t].pc = "idle"
    /\ ThreadCall(t, "try_recv", "try")

ThreadReceiver_recv_timeout(t) ==
    /\ thc[t].pc = "idle"
    /\ ThreadCall(t, "recv_timeout", "check")

\* recv, recv_timeout: if self.shutdown.is_shutdown() { return <try_recv> }
recv_check(t) ==
    /\ thc[t].pc = "check"
    /\ thc[t].op \in {"recv", "recv_timeout"}
    /\ thc' = [thc EXCEPT ![t].pc = IF is_shutdown THEN "try" ELSE "inner"]
    /\ UNCHANGED <<thread_inner, thread_capacity, thread_sent, thread_rcvd, thread_ops,
                   inner_io, shutdown, pending_count, notThread>>

\* what an empty channel gives: recv maps every error of inner.try_recv to
\* Closed; try_recv, and recv_timeout through self.try_recv(), map Empty to
\* WouldBlock
try_recv_empty(op) == IF op = "recv" THEN "Closed" ELSE "WouldBlock"

\* self.inner.try_recv() in recv after shutdown, in try_recv, and in
\* recv_timeout after shutdown
inner_try_recv(t) ==
    /\ thc[t].pc = "try"
    /\ IF thread_inner = <<>> THEN fails(t, try_recv_empty(thc[t].op)) ELSE dequeue(t)
    /\ UNCHANGED <<thread_capacity, thread_ops, inner_io, shutdown, pending_count, notThread>>

\* recv: self.inner.recv(), which blocks while the channel is empty
inner_recv(t) ==
    /\ thc[t].pc = "inner"
    /\ thc[t].op = "recv"
    /\ thread_inner # <<>>
    /\ dequeue(t)
    /\ UNCHANGED <<thread_capacity, thread_ops, inner_io, shutdown, pending_count, notThread>>

\* recv_timeout: self.inner.recv_timeout(timeout), Timeout if still empty
inner_recv_timeout(t) ==
    /\ thc[t].pc = "inner"
    /\ thc[t].op = "recv_timeout"
    /\ IF thread_inner = <<>> THEN fails(t, "Timeout") ELSE dequeue(t)
    /\ UNCHANGED <<thread_capacity, thread_ops, inner_io, shutdown, pending_count, notThread>>

\* GracefulIpcChannel::send_bytes / recv_bytes / send / recv is called
GracefulIpcChannel_call(t, op) ==
    /\ thc[t].pc = "idle"
    /\ ThreadCall(t, op, "g_check")

\* if self.state.is_shutdown() { return Err(Closed) }
graceful_check(t) ==
    /\ thc[t].pc = "g_check"
    /\ IF is_shutdown
       THEN thc' = ThreadReturn(t, "Closed")
       ELSE thc' = [thc EXCEPT ![t].pc = "g_begin"]
    /\ UNCHANGED <<thread_inner, thread_capacity, thread_sent, thread_rcvd, thread_ops,
                   inner_io, shutdown, pending_count, notThread>>

\* begin_operation()?: the first test of the flag
graceful_begin(t) ==
    /\ thc[t].pc = "g_begin"
    /\ IF shutdown
       THEN thc' = ThreadReturn(t, "Closed")
       ELSE thc' = [thc EXCEPT ![t].pc = "g_inc"]
    /\ UNCHANGED <<thread_inner, thread_capacity, thread_sent, thread_rcvd, thread_ops,
                   inner_io, shutdown, pending_count, notThread>>

\* begin_operation: pending_count.fetch_add(1)
graceful_inc(t) ==
    /\ thc[t].pc = "g_inc"
    /\ pending_count' = pending_count + 1
    /\ thc' = [thc EXCEPT ![t].pc = "g_check2"]
    /\ UNCHANGED <<thread_inner, thread_capacity, thread_sent, thread_rcvd, thread_ops,
                   inner_io, shutdown, notThread>>

\* begin_operation: the second test; fetch_sub(1) and Closed, or the guard
graceful_check2(t) ==
    /\ thc[t].pc = "g_check2"
    /\ IF shutdown
       THEN /\ pending_count' = pending_count - 1
            /\ thc' = ThreadReturn(t, "Closed")
       ELSE /\ thc' = [thc EXCEPT ![t].pc = "g_inner"]
            /\ UNCHANGED pending_count
    /\ UNCHANGED <<thread_inner, thread_capacity, thread_sent, thread_rcvd, thread_ops,
                   inner_io, shutdown, notThread>>

\* self.inner.send_bytes(data) / recv_bytes() / send(msg) / recv()
graceful_inner(t) ==
    /\ thc[t].pc = "g_inner"
    /\ inner_io' = inner_io + 1
    /\ thc' = [thc EXCEPT ![t].pc = "g_drop"]
    /\ UNCHANGED <<thread_inner, thread_capacity, thread_sent, thread_rcvd, thread_ops,
                   shutdown, pending_count, notThread>>

\* _guard goes out of scope: OperationGuard::drop, and the call returns
graceful_drop(t) ==
    /\ thc[t].pc = "g_drop"
    /\ pending_count' = pending_count - 1
    /\ thc' = ThreadReturn(t, "Ok")
    /\ UNCHANGED <<thread_inner, thread_capacity, thread_sent, thread_rcvd, thread_ops,
                   inner_io, shutdown, notThread>>

\* C38: no element is enqueued into a ThreadChannel after shutdown() has
\* returned: once the flag is stored, which is all that shutdown does before
\* it returns, no send, try_send or send_timeout adds an element.
C38_NoEnqueueAfterShutdown ==
    [][shutdown => thread_sent' = thread_sent]_vars

\* the steps a thread takes inside a call it has entered
ThreadStep(t) ==
    \/ send_check(t)
    \/ inner_send(t)
    \/ inner_try_send(t)
    \/ inner_send_timeout(t)
    \/ recv_check(t)
    \/ inner_try_recv(t)
    \/ inner_recv(t)
    \/ inner_recv_timeout(t)
    \/ graceful_check(t)
    \/ graceful_begin(t)
    \/ graceful_inc(t)
    \/ graceful_check2(t)
    \/ graceful_inner(t)
    \/ graceful_drop(t)

\* t is inside self.inner.recv() on an empty channel, or inside
\* self.inner.send(msg) on a full one
BlockedInInner(t) ==
    /\ thc[t].pc = "inner"
    /\ \/ thc[t].op = "recv" /\ thread_inner = <<>>
       \/ thc[t].op = "send" /\ inner_is_full

\* C39: signalling shutdown unblocks the operations that are blocked on a
\* ThreadChannel: a recv blocked on an empty channel and a send blocked on a
\* full one eventually return Closed once shutdown has been called.
C39_ShutdownUnblocks ==
    \A t \in ThreadCallers :
        (BlockedInInner(t) /\ shutdown) ~> (thc[t].pc = "idle" /\ thc[t].res = "Closed")

ThreadNext ==
    \/ ThreadSender_shutdown
    \/ \E t \in ThreadCallers :
        \/ ThreadSender_send(t)
        \/ ThreadSender_try_send(t)
        \/ ThreadSender_send_timeout(t)
        \/ send_check(t)
        \/ inner_send(t)
        \/ inner_try_send(t)
        \/ inner_send_timeout(t)
        \/ ThreadReceiver_recv(t)
        \/ ThreadReceiver_try_recv(t)
        \/ ThreadReceiver_recv_timeout(t)
        \/ recv_check(t)
        \/ inner_try_recv(t)
        \/ inner_recv(t)
        \/ inner_recv_timeout(t)
        \/ \E op \in GracefulOps : GracefulIpcChannel_call(t, op)
        \/ graceful_check(t)
        \/ graceful_begin(t)
        \/ graceful_inc(t)
        \/ graceful_check2(t)
        \/ graceful_inner(t)
        \/ graceful_drop(t)

\* C16: a send, try_send or send_timeout of a ThreadSender, or a send_bytes,
\* recv_bytes, send or recv of a GracefulIpcChannel, that begins after
\* shutdown was signalled returns Closed at its first step and queues,
\* writes, reads and counts nothing.
C16_SendAfterShutdownIsClosed ==
    /\ [](\A t \in ThreadCallers :
            (thc[t].sd /\ thc[t].pc = "idle" /\ thc[t].op \in SendOps \cup GracefulOps)
                => thc[t].res = "Closed")
    /\ [][\A t \in ThreadCallers :
            (thc'[t] # thc[t] /\ thc'[t].sd /\ thc'[t].op \in SendOps \cup GracefulOps)
                => /\ thread_inner' = thread_inner
                   /\ inner_io' = inner_io
                   /\ pending_count' = pending_count
                   /\ thc[t].pc # "idle" => thc'[t].pc = "idle"]_vars

\* after shutdown, with an element still queued, a call of a ThreadSender and
\* a call of a GracefulIpcChannel that began after it have come back Closed
C16_Witness ==
    /\ shutdown
    /\ thread_inner # <<>>
    /\ \E t, u \in ThreadCallers :
          /\ thc[t].sd /\ thc[t].pc = "idle" /\ thc[t].op \in SendOps
          /\ thc[t].res = "Closed"
          /\ thc[u].sd /\ thc[u].pc = "idle" /\ thc[u].op \in GracefulOps
          /\ thc[u].res = "Closed"

\* C17: a recv, try_recv or recv_timeout that begins after shutdown was
\* signalled returns the oldest queued element, and Closed when the queue is
\* empty.
C17_RecvAfterShutdownDrainsThenClosed ==
    [][\A t \in ThreadCallers :
        (thc[t].sd /\ thc[t].op \in RecvOps /\ thc[t].pc # "idle" /\ thc'[t].pc = "idle")
            => IF thread_inner = <<>>
               THEN thc'[t].res = "Closed" /\ thread_inner' = thread_inner
               ELSE /\ thc'[t].res = "Ok"
                    /\ thc'[t].got = Head(thread_inner)
                    /\ thread_inner' = Tail(thread_inner)]_vars

\* C18: a bounded channel never holds more than capacity elements; a try_send
\* that is not refused for shutdown returns WouldBlock and leaves the queue
\* alone when the channel is full, and queues its element otherwise; the
\* elements received are, in order, those sent first.
C18_BoundedChannel ==
    /\ [](thread_capacity # None => Len(thread_inner) <= thread_capacity[1])
    /\ [](thread_rcvd \o thread_inner = thread_sent)
    /\ [][\A t \in ThreadCallers :
            inner_try_send(t)
                => IF thread_capacity # None /\ Len(thread_inner) >= thread_capacity[1]
                   THEN /\ thc'[t].res = "WouldBlock"
                        /\ thread_inner' = thread_inner
                   ELSE /\ thc'[t].res = "Ok"
                        /\ thread_inner' = Append(thread_inner, thc[t].msg)]_vars

\* bounded(1): send(1) filled the channel, try_send(2) got WouldBlock, a
\* recv took 1, and try_send(4) then succeeded
C18_Witness ==
    /\ thread_capacity = Some(1)
    /\ thread_sent = <<1, 4>>
    /\ thread_rcvd = <<1>>
    /\ \E t, u \in ThreadCallers :
          /\ thc[t].op = "try_send" /\ thc[t].msg = 2 /\ thc[t].res = "WouldBlock"
          /\ thc[t].pc = "idle"
          /\ thc[u].op = "try_send" /\ thc[u].msg = 4 /\ thc[u].res = "Ok"
          /\ thc[u].pc = "idle"

(***************************************************************************)
(* socket_server.rs: Connection::request (and SocketClient::request, which *)
(* passes on to it) against a peer that writes one frame for each request  *)
(* it was sent and may then close.  A payload byte of 255 stands for a      *)
(* JSON payload without the field a reader looks for.                      *)
(***************************************************************************)

MaxRequests == 3

\* what the peer may write as the k-th reply: a response with result k, a
\* response without "result", an error with message k, a message of another
\* kind, and a frame that is no Message
PeerReplies(k) ==
    { to_vec(Message("response", k)),
      to_vec(Message("response", 255)),
      to_vec(Message("error", k)),
      to_vec(Message("ping", k)),
      Bytes(<<9, k>>) }

RequestResult(req, kind, value) == [req |-> req, kind |-> kind, value |-> value]

ClientInit ==
    /\ client = [pc |-> "idle", cur |-> 0, need |-> 0, tx |-> <<>>, rx |-> <<>>,
                 read |-> 0, results |-> <<>>]
    /\ peer_replies = <<>>
    /\ peer_closed = FALSE

ClientIdle == ClientInit

\* the peer answers the oldest request it has not answered yet
peer_reply(payload) ==
    /\ ~peer_closed
    /\ Len(peer_replies) < RLen(client.tx) \div 8
    /\ payload \in PeerReplies(Len(peer_replies) + 1)
    /\ client' = [client EXCEPT !.rx = RCat(@, Frame(payload))]
    /\ peer_replies' = Append(peer_replies, payload)
    /\ UNCHANGED <<peer_closed, notClient>>

\* the peer closes the socket
peer_close ==
    /\ ~peer_closed
    /\ peer_closed' = TRUE
    /\ UNCHANGED <<client, peer_replies, notClient>>

\* request: self.send(&Message::request(method, params))?
Connection_request(method) ==
    /\ client.pc = "idle"
    /\ Len(client.results) < MaxRequests
    /\ method = Len(client.results) + 1
    /\ client' = [client EXCEPT
            !.pc = "recv_header",
            !.cur = method,
            !.tx = Connection_send(@, Message("request", method))]
    /\ UNCHANGED <<peer_replies, peer_closed, notClient>>

\* the request is over with this result
request_returns(kind, value) ==
    [client EXCEPT !.pc = "idle", !.need = 0,
                   !.results = Append(@, RequestResult(client.cur, kind, value))]

\* request: let response = self.recv()?, up to the length check
request_recv_header ==
    /\ client.pc = "recv_header"
    /\ IF RLen(client.rx) >= 4
       THEN LET len == from_le_bytes(RTake(client.rx, 4))
            IN  IF Connection_recv_too_big(len)
                THEN client' = [request_returns("BufferTooSmall", len) EXCEPT
                                    !.rx = RDrop(@, 4), !.read = @ + 4]
                ELSE client' = [client EXCEPT
                                    !.pc = "recv_data", !.need = len,
                                    !.rx = RDrop(@, 4), !.read = @ + 4]
       ELSE /\ peer_closed
            /\ client' = [request_returns("UnexpectedEof", 0) EXCEPT
                                !.rx = <<>>, !.read = @ + RLen(client.rx)]
    /\ UNCHANGED <<peer_replies, peer_closed, notClient>>

\* a match that takes whatever comes back for the result
request_match_any(response) ==
    RequestResult(0, "Ok", response.payload)

\* request: match response.msg_type { Response => result or Deserialization,
\* Error => Other(message), _ => Deserialization }
request_match(response) ==
    IF response.msg_type = "response"
    THEN IF response.payload = 255
         THEN RequestResult(0, "Deserialization", 0)
         ELSE RequestResult(0, "Ok", response.payload)
    ELSE IF response.msg_type = "error"
    THEN RequestResult(0, "Other", response.payload)
    ELSE RequestResult(0, "Deserialization", 0)

\* request: the rest of recv (the payload, serde_json::from_slice) and the
\* match on the message
request_recv_data ==
    /\ client.pc = "recv_data"
    /\ IF RLen(client.rx) >= client.need
       THEN LET msg == from_slice(RTake(client.rx, client.need))
                r == IF msg = None THEN RequestResult(0, "Deserialization", 0)
                     ELSE request_match(msg[1])
            IN  client' = [request_returns(r.kind, r.value) EXCEPT
                                !.rx = RDrop(@, client.need),
                                !.read = @ + client.need]
       ELSE /\ peer_closed
            /\ client' = [request_returns("UnexpectedEof", 0) EXCEPT
                                !.rx = <<>>, !.read = @ + RLen(client.rx)]
    /\ UNCHANGED <<peer_replies, peer_closed, notClient>>

ClientNext ==
    \/ \E k \in 1..MaxRequests : \E payload \in PeerReplies(k) : peer_reply(payload)
    \/ peer_close
    \/ \E method \in 1..MaxRequests : Connection_request(method)
    \/ request_recv_header
    \/ request_recv_data

\* the frames of the first n replies of the peer, as bytes
RECURSIVE ReplyBytes(_)
ReplyBytes(n) ==
    IF n = 0 THEN <<>> ELSE RCat(ReplyBytes(n - 1), Frame(peer_replies[n]))

\* the frames of the first n requests, as bytes
RECURSIVE RequestBytes(_)
RequestBytes(n) ==
    IF n = 0 THEN <<>>
    ELSE RCat(RequestBytes(n - 1), Frame(to_vec(Message("request", n))))

\* the request that got the k-th reply of the peer returned what the spec
\* says of a reply: every Response is Ok
AsSpecified(k) ==
    LET msg == from_slice(peer_replies[k])
        r == client.results[k]
    IN  IF msg = None THEN r.kind = "Deserialization"
        ELSE IF msg[1].msg_type = "response" THEN r.kind = "Ok" /\ r.value = msg[1].payload
        ELSE IF msg[1].msg_type = "error" THEN r.kind = "Other" /\ r.value = msg[1].payload
        ELSE r.kind = "Deserialization"

\* the same, with Deserialization for a Response that carries no result
AsAmended(k) ==
    LET msg == from_slice(peer_replies[k])
        r == client.results[k]
    IN  IF msg = None THEN r.kind = "Deserialization"
        ELSE IF msg[1].msg_type = "response" /\ msg[1].payload # 255
        THEN r.kind = "Ok" /\ r.value = msg[1].payload
        ELSE IF msg[1].msg_type = "error" THEN r.kind = "Other" /\ r.value = msg[1].payload
        ELSE r.kind = "Deserialization"

\* the requests made so far, the one in progress included
Started == Len(client.results) + (IF client.pc = "idle" THEN 0 ELSE 1)

\* each request wrote one Request frame, and each request that got a frame
\* consumed that one frame and no byte more
OneFrameEach ==
    /\ client.tx = RequestBytes(Started)
    /\ \A k \in 1..Len(client.results) :
          client.results[k].req = k
    /\ \A k \in 1..Len(client.results) :
          client.results[k].kind # "UnexpectedEof" => k <= Len(peer_replies)
    /\ \A k \in 1..Len(client.results) :
          (/\ client.results[k].kind # "UnexpectedEof"
           /\ client.pc = "idle"
           /\ k = Len(client.results))
              => /\ client.read = RLen(ReplyBytes(k))
                 /\ RCat(ReplyBytes(k), client.rx) = ReplyBytes(Len(peer_replies))

MaxAcceptClients == 4

AcceptClients == 1..MaxAcceptClients

MaxAccepts == 2

AcceptInit ==
    /\ accept_listener = <<>>
    /\ connections = {}
    /\ accept_next_id = 1
    /\ accept_call = [pc |-> "idle", calls |-> 0, res |-> "none"]
    /\ accept_returned = <<>>
    /\ accept_connected = {}

AcceptIdle == AcceptInit

\* LocalSocketStream::connect by a client: it waits in the listener's backlog
accept_client_connect(c) ==
    /\ c \notin accept_connected
    /\ accept_connected' = accept_connected \cup {c}
    /\ accept_listener' = Append(accept_listener, c)
    /\ UNCHANGED <<connections, accept_next_id, accept_call, accept_returned, shutdown,
                   notAccept>>

\* accept: if self.shutdown.is_shutdown() { return Err(IpcError::Closed) }
SocketServer_accept ==
    /\ accept_call.pc = "idle"
    /\ accept_call.calls < MaxAccepts
    /\ accept_call' = IF shutdown
                      THEN [accept_call EXCEPT !.calls = @ + 1, !.res = "Closed"]
                      ELSE [accept_call EXCEPT !.calls = @ + 1, !.pc = "first",
                                               !.res = "none"]
    /\ UNCHANGED <<accept_listener, connections, accept_next_id, accept_returned,
                   accept_connected, shutdown, notAccept>>

\* accept: listener.accept()?, next_id.fetch_add(1), and the Connection made
\* of them is put into self.connections
accept_first ==
    /\ accept_call.pc = "first"
    /\ accept_listener # <<>>
    /\ accept_listener' = Tail(accept_listener)
    /\ accept_next_id' = accept_next_id + 1
    /\ connections' = connections \cup {[id |-> accept_next_id, client |-> Head(accept_listener)]}
    /\ accept_call' = [accept_call EXCEPT !.pc = "second"]
    /\ UNCHANGED <<accept_returned, accept_connected, shutdown, notAccept>>

\* accept: a second listener.accept()? and fetch_add(1); the Connection made
\* of these is returned
accept_second ==
    /\ accept_call.pc = "second"
    /\ accept_listener # <<>>
    /\ accept_listener' = Tail(accept_listener)
    /\ accept_next_id' = accept_next_id + 1
    /\ accept_returned' = Append(accept_returned,
                                 [id |-> accept_next_id, client |-> Head(accept_listener)])
    /\ accept_call' = [accept_call EXCEPT !.pc = "idle", !.res = "Ok"]
    /\ UNCHANGED <<connections, accept_connected, shutdown, notAccept>>

AcceptNext ==
    \/ \E c \in AcceptClients : accept_client_connect(c)
    \/ SocketServer_shutdown
    \/ SocketServer_accept
    \/ accept_first
    \/ accept_second

\* the clients whose connection was taken from the listener
AcceptConsumed == accept_connected \ {accept_listener[i] : i \in 1..Len(accept_listener)}

\* C21: each accept call takes one connection from the listener and returns
\* it: whenever no call is in progress, the connections taken are exactly
\* those returned, one per successful call; and a call in progress that has
\* taken a connection returns without waiting for another client.
C21_AcceptOncePerCall ==
    /\ accept_call.pc = "idle" =>
          /\ Cardinality(AcceptConsumed) = Len(accept_returned)
          /\ AcceptConsumed = {accept_returned[i].client : i \in 1..Len(accept_returned)}
    /\ accept_call.pc # "idle" =>
          Cardinality(AcceptConsumed) = Len(accept_returned)

\* a step leaves what a transition of task id would set as it is, and
\* publishes nothing
NoTransition(id) ==
    /\ task_state'[id].status = task_state[id].status
    /\ task_state'[id].started_at = task_state[id].started_at
    /\ task_state'[id].finished_at = task_state[id].finished_at
    /\ task_state'[id].error = task_state[id].error
    /\ task_state'[id].cancelled = task_state[id].cancelled
    /\ task_events' = task_events

\* C28: a transition asked for from a status it is not legal from changes
\* nothing: start on a task that is not Pending, complete or fail on a task
\* that is not Running or Paused, and cancel of a task whose status was
\* terminal when cancel looked it up, leave status, started_at, finished_at,
\* error and the token of the task as they are and publish no event.
C28_IllegalTransitionChangesNothing ==
    [][\A t \in TaskThreads :
        /\ \A id \in DOMAIN task_state :
                (/\ tk'[t].id = id
                 /\ \/ Calls(t, "start") /\ task_state[id].status # "Pending"
                    \/ Calls(t, "complete") /\ task_state[id].status \notin {"Running", "Paused"}
                    \/ Calls(t, "fail") /\ task_state[id].status \notin {"Running", "Paused"})
                    => NoTransition(id)
        /\ (tk[t].op = "cancel" /\ tk[t].pc # "idle" /\ is_terminal(tk[t].pre)
                /\ tk'[t] # tk[t]) => NoTransition(tk[t].id)]_vars

\* C29: a task whose status is Completed has progress 100, in its cells in
\* every state (so also between the steps of complete, and after a later
\* set_progress) and in every snapshot that info() or get() returns.
C29_CompletedHasFullProgress ==
    /\ \A id \in DOMAIN task_state :
            task_state[id].status = "Completed" => task_state[id].progress = 100
    /\ \A t \in TaskThreads :
            (tk[t].res = "Info" /\ tk[t].snap[1].status = "Completed") =>
                tk[t].snap[1].progress = 100

\* C30: a set_progress(p, None) publishes one task.progress event about its
\* task whose data is current = percentage = min(p, 100), total = 100 and
\* message = "": the value that the call stored in the progress cell.
C30_ProgressEventIsClamped ==
    [][\A t \in TaskThreads :
            (tk[t].pc = "progress_publish" /\ tk'[t].pc = "idle") =>
                /\ task_events' = Append(task_events, task_events'[Len(task_events')])
                /\ task_events'[Len(task_events')].event_type = "task.progress"
                /\ task_events'[Len(task_events')].resource_id = tk[t].id
                /\ task_events'[Len(task_events')].data =
                        [current |-> Min(tk[t].arg, 100), total |-> 100,
                         percentage |-> Min(tk[t].arg, 100), message |-> ""]]_vars

\* the event type that an operation on a task announces
LifecycleEvent(op) ==
    CASE op = "create" -> "task.created"
      [] op = "start" -> "task.started"
      [] op = "set_progress" -> "task.progress"
      [] op = "complete" -> "task.completed"
      [] op = "fail" -> "task.failed"
      [] op = "cancel" -> "task.cancelled"
      [] op = "pause" -> "task.paused"
      [] op = "resume" -> "task.resumed"
      [] OTHER -> "none"

\* thread t returns, in this step, from an operation that went through its body
Completes(t) == tk[t].pc # "idle" /\ tk'[t].pc = "idle"

C24_ShutdownStopsLoops ==
    [][/\ shutdown => shutdown'
       /\ (shutdown /\ run.pc = "incoming" /\ run' # run) => run'.pc = "returned"
       /\ \A c \in Clients :
            /\ (shutdown /\ conn'[c].pc = "on_connect") => conn[c].pc = "on_connect"
            /\ conn'[c].after_shutdown <= 1
            /\ conn'[c].after_shutdown = 1 => conn'[c].pc \in {"loop", "disconnect", "done"}
            /\ (shutdown /\ conn[c].pc = "loop" /\ conn'[c].pc # "loop") =>
                    conn'[c].pc = "disconnect"]_vars

\* a connection that was inside recv when the flag was set has handled that
\* one message, left the loop and been disconnected, and run has returned
C24_Witness ==
    /\ shutdown
    /\ run.pc = "returned"
    /\ \E c \in Clients :
            /\ conn[c].after_shutdown = 1
            /\ Len(conn[c].handled) = 2
            /\ conn[c].pc = "done"
            /\ conn[c].disconnects = 1
            /\ conn[c].rx # <<>>

\* C26: when on_message returns Err the loop writes one frame to the
\* client, the Error message with code -1, after what it wrote before (to a
\* client that closed its socket the write may fail, and then nothing is
\* written), and goes on with the next iteration of the loop as after any
\* other message, where later messages are received and handled.
C26_HandlerErrorIsAnswered ==
    [][\A c \in Clients :
            (Len(conn'[c].results) = Len(conn[c].results) + 1
                /\ conn'[c].results[Len(conn'[c].results)] = "Err") =>
                /\ conn'[c].pc = "loop"
                /\ \/ conn'[c].tx = RCat(conn[c].tx, Frame(to_vec(Message_error)))
                   \/ conn[c].closed /\ conn'[c].tx = conn[c].tx
                /\ conn'[c].disconnects = 0]_vars

\* after a handler error the client got one Error frame, and the next message
\* of the client was received, handled and answered
C26_Witness ==
    \E c \in Clients :
        /\ conn[c].results = <<"Err", "Some">>
        /\ Len(conn[c].handled) = 2
        /\ conn[c].tx = RCat(Frame(to_vec(Message_error)),
                             Frame(to_vec(Message("response", conn[c].handled[2].payload))))

\* C32: once a conn.send of the loop has failed, for the response of the
\* handler or for the Error message that answers a handler error, the thread
\* reads nothing more from the connection and calls on_message no more.
C32_SendErrorEndsLoop ==
    [][\A c \in Clients :
            conn[c].send_failed =>
                /\ conn'[c].read = conn[c].read
                /\ conn'[c].handled = conn[c].handled]_vars

\* C25: the thread of a connection calls on_disconnect exactly once, after
\* the last on_message, however the processing of the connection ends: a
\* thread that has ended has made one call, and a call is made only by a
\* thread that ends with it.
C25_DisconnectExactlyOnce ==
    \A c \in Clients :
        /\ conn[c].disconnects <= 1
        /\ conn[c].pc = "done" => conn[c].disconnects = 1
        /\ conn[c].disconnects = 1 => conn[c].pc = "done"

(***************************************************************************)
(* event_stream.rs: EventFilter on its own.  A filter is put together by   *)
(* the builder calls and then asked about events.                          *)
(***************************************************************************)

MaxPatterns == 2

MaxResourceIds == 1

MaxTime == 2

TASK_ANY == <<"t", ".", "*">>

ANY_DONE == <<"*", ".", "d">>

FilterPatterns == {TASK_ANY, TASK_STARTED, ANY_DONE, <<".", "*">>}

FilterEventTypes == {TASK_STARTED, TASK_DONE, LOG_INFO, <<"t">>, <<"t", "x">>}

ResourceIds == {"r1", "r2"}

FilterInit ==
    /\ ef_filter = EmptyFilter
    /\ ef_event = None
    /\ ef_result = None

FilterIdle == FilterInit

\* self.event_types.get_or_insert_with(Vec::new)
get_or_insert_with(opt) == IF opt = None THEN <<>> ELSE opt[1]

\* EventFilter::event_type
EventFilter_event_type(pattern) ==
    /\ ef_event = None
    /\ Len(get_or_insert_with(ef_filter.event_types)) < MaxPatterns
    /\ ef_filter' = [ef_filter EXCEPT
                        !.event_types = Some(Append(get_or_insert_with(@), pattern))]
    /\ UNCHANGED <<ef_event, ef_result, notFilter>>

\* EventFilter::resource
EventFilter_resource(id) ==
    /\ ef_event = None
    /\ Len(get_or_insert_with(ef_filter.resource_ids)) < MaxResourceIds
    /\ ef_filter' = [ef_filter EXCEPT
                        !.resource_ids = Some(Append(get_or_insert_with(@), id))]
    /\ UNCHANGED <<ef_event, ef_result, notFilter>>

\* EventFilter::since
EventFilter_since(time) ==
    /\ ef_event = None
    /\ ef_filter.since = None
    /\ ef_filter' = [ef_filter EXCEPT !.since = Some(time)]
    /\ UNCHANGED <<ef_event, ef_result, notFilter>>

\* EventFilter::until
EventFilter_until(time) ==
    /\ ef_event = None
    /\ ef_filter.until = None
    /\ ef_filter' = [ef_filter EXCEPT !.until = Some(time)]
    /\ UNCHANGED <<ef_event, ef_result, notFilter>>

\* EventFilter::matches called with an event
EventFilter_matches(ty, rid, ts) ==
    LET event == [id |-> 1, timestamp |-> ts, event_type |-> ty, resource_id |-> rid]
    IN  /\ ef_event' = Some(event)
        /\ ef_result' = Some(matches(ef_filter, event))
        /\ UNCHANGED <<ef_filter, notFilter>>

FilterNext ==
    \/ \E pattern \in FilterPatterns : EventFilter_event_type(pattern)
    \/ \E id \in ResourceIds : EventFilter_resource(id)
    \/ \E time \in 0..MaxTime : EventFilter_since(time)
    \/ \E time \in 0..MaxTime : EventFilter_until(time)
    \/ \E ty \in FilterEventTypes, rid \in {None} \cup {Some(r) : r \in ResourceIds},
          ts \in 0..MaxTime : EventFilter_matches(ty, rid, ts)

\* the characters of a string
Chars(str) == {str[i] : i \in 1..Len(str)}

\* a pattern against an event type, as the two kinds of pattern are described;
\* a pattern with a '*' elsewhere is left to the glob loop
TypeMatches(pattern, ty) ==
    IF "*" \notin Chars(pattern)
    THEN ty = pattern
    ELSE IF Len(pattern) >= 2 /\ pattern[Len(pattern) - 1] = "." /\ pattern[Len(pattern)] = "*"
    THEN /\ Len(ty) >= Len(pattern) - 2
         /\ \A i \in 1..(Len(pattern) - 2) : ty[i] = pattern[i]
    ELSE GlobLoop(Split(pattern), 1, 0, ty)

\* every configured dimension of filter f matches event e
EveryDimensionMatches(f, e) ==
    /\ f.event_types = None
        \/ \E pattern \in {f.event_types[1][k] : k \in 1..Len(f.event_types[1])} :
                TypeMatches(pattern, e.event_type)
    /\ f.resource_ids = None
        \/ /\ e.resource_id # None
           /\ e.resource_id[1] \in {f.resource_ids[1][k] : k \in 1..Len(f.resource_ids[1])}
    /\ f.since = None \/ f.since[1] <= e.timestamp
    /\ f.until = None \/ e.timestamp <= f.until[1]

BlockedInSend(p) ==
    /\ pub[p].pc = "loop"
    /\ pub[p].i <= Len(subscribers)
    /\ config.slow_consumer = "Block"
    /\ accepts(subscribers[pub[p].i], pub[p].event)
    /\ Full(subscribers[pub[p].i])

\* C34: a publisher that waits in the blocking send of the Block policy does
\* not hold the lock of the subscriber registry, so that subscribe, which
\* needs the write lock, does not wait for the slow subscriber.
C34_BlockedPublisherHoldsNoLock ==
    \A p \in Publishers : BlockedInSend(p) => p \notin readers

\* C35: under DropOldest, when publish reaches a subscriber whose filter
\* matches and whose channel is full, the oldest event in the channel is
\* dropped and the new one enqueued behind the rest, so that the channel holds
\* the subscriber_buffer most recent matching events.
C35_DropOldestKeepsNewest ==
    [][\A p \in Publishers :
            (/\ pub[p].pc = "loop"
             /\ pub'[p].i = pub[p].i + 1
             /\ config.slow_consumer = "DropOldest"
             /\ accepts(subscribers[pub[p].i], pub[p].event)
             /\ Full(subscribers[pub[p].i])) =>
                subscribers'[pub[p].i].queue =
                    Append(Tail(subscribers[pub[p].i].queue), pub[p].event)]_vars

(***************************************************************************)
(* socket_server.rs: Connection::send on one side of a stream and          *)
(* Connection::recv on the other.  A message is given by the bytes that    *)
(* serde_json::to_vec makes of it.                                         *)
(***************************************************************************)

MaxSends == 4

\* what to_vec can return: a short message, and messages with a long text of
\* 16 MiB and of one byte more when serialized
Serialized ==
    { to_vec(Message("text", 7)), Run(32, MAX_MESSAGE_SIZE), Run(32, MAX_MESSAGE_SIZE + 1) }

SendInit ==
    /\ snd_wire = <<>>
    /\ snd_lens = <<>>
    /\ snd_res = <<>>
    /\ snd_peer = [res |-> NoResult, read |-> 0]

SendIdle == SendInit

\* Connection::send after to_vec: len as u32, write_all of the prefix,
\* write_all of the data, flush; the result and the bytes put on the stream
send_data(data) == [res |-> OkSend, wire |-> Frame(data)]

\* Connection::send(msg), data being to_vec(msg)
Connection_send_msg(data) ==
    /\ Len(snd_res) < MaxSends
    /\ snd_peer.res.kind \in {"none", "Ok"}
    /\ snd_wire' = RCat(snd_wire, send_data(data).wire)
    /\ snd_lens' = IF send_data(data).wire = <<>> THEN snd_lens
                   ELSE Append(snd_lens, from_le_bytes(RTake(send_data(data).wire, 4)))
    /\ snd_res' = Append(snd_res, send_data(data).res)
    /\ UNCHANGED <<snd_peer, notSend>>

\* Connection::recv by the peer, when the prefix of a frame is there: the
\* length check, then the payload and from_slice
peer_recv ==
    /\ snd_peer.res.kind \in {"none", "Ok"}
    /\ RLen(snd_wire) >= 4
    /\ LET len == from_le_bytes(RTake(snd_wire, 4))
       IN  IF Connection_recv_too_big(len)
           THEN /\ snd_peer' = [res |-> BufferTooSmall("recv", len, 16 * 1024 * 1024),
                                read |-> snd_peer.read + 4]
                /\ snd_wire' = RDrop(snd_wire, 4)
           ELSE /\ snd_peer' = [res |-> RecvOk(RTake(RDrop(snd_wire, 4), len)),
                                read |-> snd_peer.read + 4 + len]
                /\ snd_wire' = RDrop(snd_wire, 4 + len)
    /\ UNCHANGED <<snd_lens, snd_res, notSend>>

SendNext ==
    \/ \E data \in Serialized : Connection_send_msg(data)
    \/ peer_recv

\* C31: Connection::send of a message whose serialized form is longer than
\* 16 MiB returns BufferTooSmall and puts nothing on the stream: no frame on
\* the stream declares more than 16 MiB, and the receiving Connection::recv
\* never has to refuse a frame of this sender.
C31_OversizeSendWritesNothing ==
    /\ \A i \in 1..Len(snd_lens) : snd_lens[i] <= MAX_MESSAGE_SIZE
    /\ \A i \in 1..Len(snd_res) : snd_res[i].kind = "BufferTooSmall" => snd_res[i].needed > MAX_MESSAGE_SIZE
    /\ snd_peer.res.kind # "BufferTooSmall"

(***************************************************************************)
(* socket_server.rs: GracefulChannel for SocketServer.  shutdown_timeout   *)
(* is called by the thread that owns the server while run and the threads  *)
(* of the connections go on as above.                                      *)
(***************************************************************************)

StopInit == stop = [pc |-> "idle", res |-> "none"]

StopIdle == StopInit

\* shutdown_timeout: self.shutdown()
SocketServer_shutdown_timeout ==
    /\ stop.pc = "idle"
    /\ stop.res = "none"
    /\ shutdown' = TRUE
    /\ stop' = [stop EXCEPT !.pc = "wait_for_drain"]
    /\ UNCHANGED <<serverVars, notStop>>

\* shutdown_timeout: self.shutdown.wait_for_drain(Some(timeout)), one turn of
\* its loop: Ok when pending_count is 0, else Timeout when the time is up,
\* else sleep and poll again
shutdown_timeout_wait_for_drain(elapsed) ==
    /\ stop.pc = "wait_for_drain"
    /\ stop' = IF pending_count = 0 THEN [pc |-> "idle", res |-> "Ok"]
               ELSE IF elapsed THEN [pc |-> "idle", res |-> "Timeout"]
               ELSE stop
    /\ UNCHANGED <<shutdown, serverVars, notStop>>

StopNext ==
    \/ ServerNext
    \/ SocketServer_shutdown_timeout
    \/ \E elapsed \in BOOLEAN : shutdown_timeout_wait_for_drain(elapsed)

\* the thread of connection c is in the middle of a message: it has read the
\* length prefix, or it is in on_message or sending the reply
InFlight(c) == conn[c].pc \in {"recv_data", "on_message"}

\* C33: shutdown_timeout sets the flag, and when it returns Ok no thread of
\* a connection is in the middle of receiving, handling or answering a
\* message; it returns Timeout when one still is as the time runs out.
C33_ShutdownTimeoutDrains ==
    [][/\ (stop.pc = "idle" /\ stop'.pc # "idle") => shutdown'
       /\ (stop.pc = "wait_for_drain" /\ stop'.res = "Ok") =>
                \A c \in Clients : ~InFlight(c)]_vars

(***************************************************************************)
(* task_manager.rs: TaskManager::cleanup, with the time.  The clock counts *)
(* in units of which retention_period is a multiple.                       *)
(***************************************************************************)

MaxClock == 2

retention_period == 1

ClockInit == clock = 0

ClockIdle == ClockInit

\* time passes
tick ==
    /\ clock < MaxClock
    /\ clock' = clock + 1
    /\ UNCHANGED notClock

\* cleanup: SystemTime::now() and self.tasks.write()
TaskManager_cleanup(t) ==
    /\ TaskCall(t)
    /\ tasks_readers = {}
    /\ ~tasks_write_locked
    /\ tk' = [tk EXCEPT ![t] = [Enter(t, "cleanup", 0, "cleanup_retain") EXCEPT
                                    !.now = clock, !.todo = tasks]]
    /\ UNCHANGED <<tasks, tasks_readers, task_state, next_id, task_events, clock, notCleanup>>

\* retain comes to the entry of id: state.get_info() begins with the clone
\* of TaskInfo; all entries visited: the lock is released and cleanup returns
cleanup_retain(t) ==
    /\ tk[t].pc = "cleanup_retain"
    /\ IF tk[t].todo = {}
       THEN tk' = [tk EXCEPT ![t].pc = "idle", ![t].res = "Unit", ![t].snap = None]
       ELSE \E id \in tk[t].todo :
                tk' = [tk EXCEPT ![t].pc = "cleanup_status", ![t].id = id,
                                 ![t].todo = @ \ {id}, ![t].snap = info_clone(id)]
    /\ UNCHANGED <<tasks, tasks_readers, task_state, next_id, task_events, taskops, clock,
                   notCleanup>>

\* get_info in the closure: info.status = TaskStatus::from(self.status.load())
cleanup_status(t) ==
    /\ tk[t].pc = "cleanup_status"
    /\ tk' = [tk EXCEPT ![t].pc = "cleanup_keep",
                        ![t].snap = Some([tk[t].snap[1] EXCEPT
                                            !.status = task_state[tk[t].id].status])]
    /\ UNCHANGED <<tasks, tasks_readers, task_state, next_id, task_events, taskops, clock,
                   notCleanup>>

\* what the closure of retain returns for a snapshot: true keeps the entry.
\* now.duration_since(finished_at) is an error for a finished_at after now.
keep(info, now) ==
    IF ~is_terminal(info.status) THEN TRUE
    ELSE IF info.finished_at # None /\ info.finished_at[1] <= now
    THEN now - info.finished_at[1] < retention_period
    ELSE TRUE

\* the closure returns and retain keeps or removes the entry
cleanup_keep(t) ==
    /\ tk[t].pc = "cleanup_keep"
    /\ tasks' = IF keep(tk[t].snap[1], tk[t].now) THEN tasks ELSE tasks \ {tk[t].id}
    /\ tk' = [tk EXCEPT ![t].pc = "cleanup_retain"]
    /\ UNCHANGED <<tasks_readers, task_state, next_id, task_events, taskops, clock,
                   notCleanup>>

\* the task is terminal and finished at least retention_period before now
Due(id, now) ==
    /\ is_terminal(task_state[id].status)
    /\ task_state[id].finished_at # None
    /\ now - task_state[id].finished_at[1] >= retention_period

\* a step in which cleanup on thread t has settled what becomes of an entry
CleanupDecides(t) == tk[t].pc = "cleanup_keep" /\ tk'[t].pc = "cleanup_retain"

\* C36: cleanup removes exactly the tasks that are terminal and whose
\* finished_at lies at least retention_period in the past: an entry that
\* cleanup visits is removed if and only if its task is then terminal and that
\* old; and an entry leaves the set of tasks only by cleanup or by a
\* successful remove(id).
C36_CleanupRemovesExactlyDue ==
    [][/\ \A t \in TaskThreads :
              CleanupDecides(t) => (tk[t].id \notin tasks' <=> Due(tk[t].id, tk[t].now))
       /\ \A id \in tasks \ tasks' :
              \E t \in TaskThreads :
                  \/ CleanupDecides(t) /\ tk[t].id = id
                  \/ tk'[t].op = "remove" /\ tk'[t].id = id /\ tk'[t].res = "Ok"]_vars

CleanupNext ==
    \/ TaskNext
    \/ tick
    \/ \E t \in TaskThreads : TaskManager_cleanup(t)
    \/ \E t \in TaskThreads : cleanup_retain(t)
    \/ \E t \in TaskThreads : cleanup_status(t)
    \/ \E t \in TaskThreads : cleanup_keep(t)

(***************************************************************************)
(* file_channel.rs: one writer sending into the file that is the inbox of  *)
(* one reader.  A message is its id and its timestamp; uuid_v4 is taken to *)
(* give a fresh id each time.  The ring of the file holds RingSize         *)
(* messages where the code keeps 100.                                      *)
(***************************************************************************)

MaxFileSends == 4

MaxFileRecvs == 3

MaxMillis == 2

RingSize == 3

\* FileChannel::new: "[]" in the file, last_inbox_id None, last_inbox_timestamp 0
FileInit ==
    /\ inbox_file = <<>>
    /\ last_inbox_id = None
    /\ last_inbox_timestamp = 0
    /\ file_recvd = <<>>
    /\ file_sent = 0
    /\ millis = 1

FileIdle == FileInit

\* current_timestamp_ms grows
file_tick ==
    /\ millis < MaxMillis
    /\ millis' = millis + 1
    /\ UNCHANGED <<inbox_file, last_inbox_id, last_inbox_timestamp, file_recvd, file_sent, notFile>>

\* FileMessage::request, response, error_response, event
FileMessage == [id |-> file_sent + 1, timestamp |-> millis]

\* send: messages.push, then the last RingSize of them
ring_push(messages, message) ==
    LET pushed == Append(messages, message)
    IN  IF Len(pushed) > RingSize
        THEN SubSeq(pushed, Len(pushed) - RingSize + 1, Len(pushed))
        ELSE pushed

\* the writer's send_request, send_response, send_error or send_event: a
\* new message, and FileChannel::send of it under the lock of the file
FileChannel_send ==
    /\ file_sent < MaxFileSends
    /\ file_sent' = file_sent + 1
    /\ inbox_file' = ring_push(inbox_file, FileMessage)
    /\ UNCHANGED <<last_inbox_id, last_inbox_timestamp, file_recvd, millis, notFile>>

\* the filter of recv
is_new(m) ==
    \/ m.timestamp > last_inbox_timestamp
    \/ m.timestamp = last_inbox_timestamp /\ last_inbox_id # Some(m.id)

new_messages == SelectSeq(inbox_file, is_new)

\* the reader's FileChannel::recv
FileChannel_recv ==
    /\ Len(file_recvd) < MaxFileRecvs
    /\ file_recvd' = Append(file_recvd, new_messages)
    /\ IF new_messages # <<>>
       THEN /\ last_inbox_timestamp' = new_messages[Len(new_messages)].timestamp
            /\ last_inbox_id' = Some(new_messages[Len(new_messages)].id)
       ELSE UNCHANGED <<last_inbox_id, last_inbox_timestamp>>
    /\ UNCHANGED <<inbox_file, file_sent, millis, notFile>>

FileNext ==
    \/ file_tick
    \/ FileChannel_send
    \/ FileChannel_recv

\* the ids that the recv calls so far have returned
ReturnedAt(i) == { file_recvd[i][j].id : j \in 1..Len(file_recvd[i]) }

\* C37: across the recv calls of one reader no message is returned twice,
\* neither by two calls nor within one, messages of the same millisecond
\* included.
C37_EachMessageOnce ==
    /\ \A i, j \in 1..Len(file_recvd) : i # j => ReturnedAt(i) \cap ReturnedAt(j) = {}
    /\ \A i \in 1..Len(file_recvd) : Len(file_recvd[i]) = Cardinality(ReturnedAt(i))

\* no message is skipped: a recv call returns every message in the file that
\* no earlier call returned
NoneSkipped ==
    [][file_recvd' # file_recvd =>
         \A k \in 1..Len(inbox_file) :
             \/ \E i \in 1..Len(file_recvd) : inbox_file[k].id \in ReturnedAt(i)
             \/ \E j \in 1..Len(new_messages) : new_messages[j].id = inbox_file[k].id]_vars

(***************************************************************************)
(* socket_server.rs: SocketServer::run with several clients, as far as the *)
(* number of connection threads goes.  What a thread does with its         *)
(* connection is in the model of run above; here a thread runs from its    *)
(* spawn to the end of its loop.                                           *)
(***************************************************************************)

MaxLimitClients == 3

LimitClients == 1..MaxLimitClients

\* SocketServerConfig.max_connections as the caller has set it
max_connections == 2

\* SocketServer::new: nobody has connected, run is about to call incoming
LimitInit ==
    /\ limit_backlog = <<>>
    /\ limit_connected = {}
    /\ limit_closed = {}
    /\ limit_threads = {}
    /\ limit_ended = {}
    /\ limit_run = "incoming"

LimitIdle == LimitInit

\* client c connects: the connection waits in the listener for accept
limit_client_connect(c) ==
    /\ c \notin limit_connected
    /\ limit_connected' = limit_connected \cup {c}
    /\ limit_backlog' = Append(limit_backlog, c)
    /\ UNCHANGED <<limit_closed, limit_threads, limit_ended, limit_run, shutdown, notLimit>>

\* client c closes its end
limit_client_close(c) ==
    /\ c \in limit_connected \ limit_closed
    /\ limit_closed' = limit_closed \cup {c}
    /\ UNCHANGED <<limit_backlog, limit_connected, limit_threads, limit_ended, limit_run,
                   shutdown, notLimit>>

\* SocketServer::shutdown while run is going on
limit_shutdown ==
    /\ ~shutdown
    /\ shutdown' = TRUE
    /\ UNCHANGED <<limit_backlog, limit_connected, limit_closed, limit_threads, limit_ended,
                   limit_run, notLimit>>

\* incoming: if self.shutdown.is_shutdown() { return None }, which ends run
limit_incoming ==
    /\ limit_run = "incoming"
    /\ limit_run' = IF is_shutdown THEN "returned" ELSE "accept"
    /\ UNCHANGED <<limit_backlog, limit_connected, limit_closed, limit_threads, limit_ended,
                   shutdown, notLimit>>

\* self.listener.accept() returns the oldest waiting connection, and run:
\* if is_shutdown { break }, else std::thread::spawn of its thread
limit_accept ==
    /\ limit_run = "accept"
    /\ limit_backlog # <<>>
    /\ limit_backlog' = Tail(limit_backlog)
    /\ IF is_shutdown
       THEN /\ limit_run' = "returned"
            /\ limit_ended' = limit_ended \cup {Head(limit_backlog)}
            /\ UNCHANGED limit_threads
       ELSE /\ limit_run' = "incoming"
            /\ limit_threads' = limit_threads \cup {Head(limit_backlog)}
            /\ UNCHANGED limit_ended
    /\ UNCHANGED <<limit_connected, limit_closed, shutdown, notLimit>>

\* the thread of c leaves its loop, on the shutdown flag or on the end of
\* the stream, and ends
limit_thread_ends(c) ==
    /\ c \in limit_threads
    /\ is_shutdown \/ c \in limit_closed
    /\ limit_threads' = limit_threads \ {c}
    /\ limit_ended' = limit_ended \cup {c}
    /\ UNCHANGED <<limit_backlog, limit_connected, limit_closed, limit_run, shutdown, notLimit>>

LimitNext ==
    \/ \E c \in LimitClients : limit_client_connect(c)
    \/ \E c \in LimitClients : limit_client_close(c)
    \/ limit_shutdown
    \/ limit_incoming
    \/ limit_accept
    \/ \E c \in LimitClients : limit_thread_ends(c)

\* C40: the number of client connections that run serves at the same time
\* never exceeds config.max_connections.
C40_AtMostMaxConnections == Cardinality(limit_threads) <= max_connections

\* ---- specifications ----

ChanIdle == ChanInit

ShutIdle == ShutInit

\* each specification starts one subsystem and leaves the others as constructed
InitChannel ==
    /\ ChanInit /\ ShutIdle /\ BusIdle /\ TaskIdle /\ ServerIdle
    /\ TokenIdle /\ ThreadIdle /\ ClientIdle /\ AcceptIdle /\ FilterIdle /\ SendIdle /\ StopIdle /\ ClockIdle /\ FileIdle /\ LimitIdle

InitShutdown ==
    /\ ShutInit /\ ChanIdle /\ BusIdle /\ TaskIdle /\ ServerIdle
    /\ TokenIdle /\ ThreadIdle /\ ClientIdle /\ AcceptIdle /\ FilterIdle /\ SendIdle /\ StopIdle /\ ClockIdle /\ FileIdle /\ LimitIdle

InitBus ==
    /\ BusInit /\ ChanIdle /\ ShutIdle /\ TaskIdle /\ ServerIdle
    /\ TokenIdle /\ ThreadIdle /\ ClientIdle /\ AcceptIdle /\ FilterIdle /\ SendIdle /\ StopIdle /\ ClockIdle /\ FileIdle /\ LimitIdle

InitTask ==
    /\ TaskInit /\ ChanIdle /\ ShutIdle /\ BusIdle /\ ServerIdle
    /\ TokenIdle /\ ThreadIdle /\ ClientIdle /\ AcceptIdle /\ FilterIdle /\ SendIdle /\ StopIdle /\ ClockIdle /\ FileIdle /\ LimitIdle

InitServer ==
    /\ ServerInit /\ ChanIdle /\ ShutIdle /\ BusIdle /\ TaskIdle
    /\ TokenIdle /\ ThreadIdle /\ ClientIdle /\ AcceptIdle /\ FilterIdle /\ SendIdle /\ StopIdle /\ ClockIdle /\ FileIdle /\ LimitIdle

InitToken ==
    /\ TokenInit /\ ChanIdle /\ ShutIdle /\ BusIdle /\ TaskIdle /\ ServerIdle
    /\ ThreadIdle /\ ClientIdle /\ AcceptIdle /\ FilterIdle /\ SendIdle /\ StopIdle /\ ClockIdle /\ FileIdle /\ LimitIdle

InitThread ==
    /\ ThreadInit /\ ChanIdle /\ ShutIdle /\ BusIdle /\ TaskIdle /\ ServerIdle
    /\ TokenIdle /\ ClientIdle /\ AcceptIdle /\ FilterIdle /\ SendIdle /\ StopIdle /\ ClockIdle /\ FileIdle /\ LimitIdle

InitClient ==
    /\ ClientInit /\ ChanIdle /\ ShutIdle /\ BusIdle /\ TaskIdle /\ ServerIdle
    /\ TokenIdle /\ ThreadIdle /\ AcceptIdle /\ FilterIdle /\ SendIdle /\ StopIdle /\ ClockIdle /\ FileIdle /\ LimitIdle

InitAccept ==
    /\ AcceptInit /\ ChanIdle /\ ShutIdle /\ BusIdle /\ TaskIdle /\ ServerIdle
    /\ TokenIdle /\ ThreadIdle /\ ClientIdle /\ FilterIdle /\ SendIdle /\ StopIdle /\ ClockIdle /\ FileIdle /\ LimitIdle

InitSend ==
    /\ SendInit
    /\ ChanIdle /\ ShutIdle /\ BusIdle /\ TaskIdle /\ ServerIdle
    /\ TokenIdle /\ ThreadIdle /\ ClientIdle /\ AcceptIdle /\ FilterIdle /\ StopIdle /\ ClockIdle /\ FileIdle /\ LimitIdle

SpecSend == InitSend /\ [][SendNext]_vars

InitStop ==
    /\ StopInit
    /\ ChanIdle /\ ShutIdle /\ BusIdle /\ TaskIdle /\ ServerIdle
    /\ TokenIdle /\ ThreadIdle /\ ClientIdle /\ AcceptIdle /\ FilterIdle
    /\ SendIdle /\ ClockIdle /\ FileIdle /\ LimitIdle

SpecStop == InitStop /\ [][StopNext]_vars

InitCleanup ==
    /\ ClockInit
    /\ ChanIdle /\ ShutIdle /\ BusIdle /\ TaskInit /\ ServerIdle
    /\ TokenIdle /\ ThreadIdle /\ ClientIdle /\ AcceptIdle /\ FilterIdle
    /\ SendIdle /\ StopIdle /\ FileIdle /\ LimitIdle

SpecCleanup == InitCleanup /\ [][CleanupNext]_vars

InitFile ==
    /\ FileInit
    /\ ChanIdle /\ ShutIdle /\ BusIdle /\ TaskIdle /\ ServerIdle
    /\ TokenIdle /\ ThreadIdle /\ ClientIdle /\ AcceptIdle /\ FilterIdle
    /\ SendIdle /\ StopIdle /\ ClockIdle /\ LimitIdle

SpecFile == InitFile /\ [][FileNext]_vars

InitLimit ==
    /\ LimitInit
    /\ ChanIdle /\ ShutIdle /\ BusIdle /\ TaskIdle /\ ServerIdle
    /\ TokenIdle /\ ThreadIdle /\ ClientIdle /\ AcceptIdle /\ FilterIdle
    /\ SendIdle /\ StopIdle /\ ClockIdle /\ FileIdle

SpecLimit == InitLimit /\ [][LimitNext]_vars

InitFilter ==
    /\ FilterInit /\ ChanIdle /\ ShutIdle /\ BusIdle /\ TaskIdle /\ ServerIdle
    /\ TokenIdle /\ ThreadIdle /\ ClientIdle /\ AcceptIdle /\ SendIdle /\ StopIdle /\ ClockIdle /\ FileIdle /\ LimitIdle

SpecFilter == InitFilter /\ [][FilterNext]_vars

SpecAccept == InitAccept /\ [][AcceptNext]_vars

SpecClient == InitClient /\ [][ClientNext]_vars

SpecThread == InitThread /\ [][ThreadNext]_vars

SpecToken == InitToken /\ [][TokenNext]_vars

SpecChannel == InitChannel /\ [][ChanNext]_vars

SpecShutdown == InitShutdown /\ [][ShutNext]_vars

SpecBus == InitBus /\ [][BusNext]_vars

SpecTask == InitTask /\ [][TaskNext]_vars

SpecServer == InitServer /\ [][ServerNext]_vars

\* every thread inside a call on the ThreadChannel keeps running
SpecThreadFair ==
    /\ InitThread
    /\ [][ThreadNext]_vars
    /\ \A t \in ThreadCallers : WF_vars(ThreadStep(t))

\* every thread inside a ShutdownState call keeps running
SpecShutdownFair ==
    /\ InitShutdown
    /\ [][ShutNext]_vars
    /\ \A t \in Threads : WF_vars(ShutStep(t))

====
